---------------------------- MODULE Spec2Model ----------------------------
(***************************************************************************)
(* A model of the AIDE platform's two algorithmic subsystems:              *)
(*   - the agent pipeline (PlannerAgent, CoderAgent, VerifierAgent,        *)
(*     ExecutorAgent, AgentOrchestrator) of src/unnamed/part_001;          *)
(*   - the long-term memory (VectorEmbeddingService, MemoryStorage,        *)
(*     MemoryContext) of src/API.md, lines 1135-1446;                      *)
(*   - the AIDE service functions over the database, of                    *)
(*     src/unnamed/part_001, lines 1-437.                                  *)
(*                                                                         *)
(* JavaScript runs every handler to completion between two awaits, so one  *)
(* action is the code from one await (or the call) to the next await (or   *)
(* the return).  Text is a TLA+ string; an optional field that is          *)
(* undefined is a field absent from the record.                            *)
(***************************************************************************)
EXTENDS Integers, Sequences, FiniteSets, TLC

VARIABLES
    now,        \* the clock read by Date.now() and new Date()
    runs,       \* the orchestrate calls: position, locals, trace
    invoked,    \* per orchestrate call, the agents invoked so far, in order
    storage,    \* the MemoryStorage object: memories (with its heap), nextId
    calls,      \* the MemoryStorage calls: position, arguments, locals, result
    hits,       \* per stored id, how often retrieve has returned the entry
    db,         \* the database of the AIDE service: its tables and row counters
    ops,        \* the AIDE service calls: position, arguments, locals, result
    taskQueue   \* the orchestrator's taskQueue array

orchVars == <<runs, invoked>>

memVars == <<storage, calls, hits>>

svcVars == <<db, ops>>

queueVars == <<taskQueue>>

vars == <<now, runs, invoked, storage, calls, hits, db, ops, taskQueue>>

(***************************************************************************)
(* Bounds and inputs                                                       *)
(***************************************************************************)
MaxClock == 2

Runs == {1, 2}

Prompts == {"Create a React app", "build a todo list", "retry", "try any", "company"}

ProjectIds == {1, 42}

\* the MemoryStorage calls that can be in flight at once
Slots == {1, 2}

MaxEntries == 2

MaxAccess == 2
MaxEntriesConc == 1
MaxAccessQuery == 3
MaxEntriesStats == 7
MaxClockStats == 1
MaxQueue == 3
MaxRows == 2

\* What the environment does to one agent call: the body of the agent's try
\* block completes ("none"), throws and is caught by the agent ("fail"), or the
\* call itself rejects ("raise").
Faults == {"none", "fail", "raise"}

\* Every agent of the repository wraps its whole body in try/catch, so its
\* promise never rejects: these are the faults its callers can see.
AgentFaults == {"none", "fail"}

\* An agent that calls a provider over the network may also never answer: its
\* promise stays pending ("hang").
SlowFaults == {"none", "fail", "hang"}

FaultText == "Error: provider failure"

(***************************************************************************)
(* Text helpers: String.prototype.includes, split(sep).length, case maps   *)
(***************************************************************************)
includes(s, t) ==
    \E i \in 1..(Len(s) - Len(t) + 1) : SubSeq(s, i, i + Len(t) - 1) = t

\* the positions at which sep occurs in s
matchesOf(s, sep) ==
    {i \in 1..(Len(s) - Len(sep) + 1) : SubSeq(s, i, i + Len(sep) - 1) = sep}

RECURSIVE splitFrom(_, _, _)
\* the number of pieces split cuts the text into from position i on, given the
\* positions m of the separator (of length n): split takes the leftmost
\* occurrence and goes on behind it
splitFrom(m, n, i) ==
    LET rest == {j \in m : j >= i} IN
    IF rest = {} THEN 1
    ELSE LET first == CHOOSE j \in rest : \A k \in rest : j <= k
         IN 1 + splitFrom(m, n, first + n)

\* s.split(sep).length, for a separator that is not empty
splitLength(s, sep) == splitFrom(matchesOf(s, sep), Len(sep), 1)

LowerLetters == "abcdefghijklmnopqrstuvwxyz"

UpperLetters == "ABCDEFGHIJKLMNOPQRSTUVWXYZ"

charAt(s, i) == SubSeq(s, i, i)

mapChar(c, from, to) ==
    IF \E i \in 1..Len(from) : charAt(from, i) = c
    THEN charAt(to, CHOOSE i \in 1..Len(from) : charAt(from, i) = c)
    ELSE c

toUpperCase(c) == mapChar(c, LowerLetters, UpperLetters)

toLowerCase(c) == mapChar(c, UpperLetters, LowerLetters)

isSpace(c) == c \in {" ", "\n", "\t"}

RECURSIVE pascalFrom(_, _, _)
\* str.split(/\s+/).map(capitalise first, lower-case rest).join(""), from
\* position i on; first says that position i starts a word
pascalFrom(s, i, first) ==
    IF i > Len(s) THEN ""
    ELSE IF isSpace(charAt(s, i)) THEN pascalFrom(s, i + 1, TRUE)
    ELSE (IF first THEN toUpperCase(charAt(s, i)) ELSE toLowerCase(charAt(s, i)))
         \o pascalFrom(s, i + 1, FALSE)

toPascalCase(str) == pascalFrom(str, 1, TRUE)

RECURSIVE join(_, _)
join(lines, sep) ==
    IF Len(lines) = 0 THEN ""
    ELSE IF Len(lines) = 1 THEN lines[1]
    ELSE lines[1] \o sep \o join(Tail(lines), sep)

(***************************************************************************)
(* The agents.  A response is a record with success and, when set, result, *)
(* error and nextAgent.                                                    *)
(***************************************************************************)
PlanText(prompt) ==
    "\n"
    \o "Development Plan for: "
    \o prompt
    \o "\n"
    \o "\n"
    \o "1. Architecture Design\n"
    \o "   - Identify core components\n"
    \o "   - Define data models\n"
    \o "   - Plan API structure\n"
    \o "\n"
    \o "2. Implementation Steps\n"
    \o "   - Setup project structure\n"
    \o "   - Create database schema\n"
    \o "   - Build API endpoints\n"
    \o "   - Develop UI components\n"
    \o "\n"
    \o "3. Testing Strategy\n"
    \o "   - Unit tests\n"
    \o "   - Integration tests\n"
    \o "   - E2E tests\n"
    \o "\n"
    \o "4. Deployment Plan\n"
    \o "   - Build optimization\n"
    \o "   - Performance tuning\n"
    \o "   - Production deployment\n"
    \o "      "

PlannerAnalyze(prompt, fault) ==
    IF fault = "none"
    THEN [success |-> TRUE, result |-> PlanText(prompt), nextAgent |-> "coder"]
    ELSE [success |-> FALSE, error |-> "Planner error: " \o FaultText]

CodeText(prompt) ==
    "\n"
    \o "// Generated code for: "
    \o prompt
    \o "\n"
    \o "\n"
    \o "export interface "
    \o toPascalCase(prompt)
    \o " {\n"
    \o "  id: number;\n"
    \o "  name: string;\n"
    \o "  createdAt: Date;\n"
    \o "  updatedAt: Date;\n"
    \o "}\n"
    \o "\n"
    \o "export async function create"
    \o toPascalCase(prompt)
    \o "(data: any) {\n"
    \o "  // Implementation will be generated based on requirements\n"
    \o "  return data;\n"
    \o "}\n"
    \o "\n"
    \o "export async function get"
    \o toPascalCase(prompt)
    \o "(id: number) {\n"
    \o "  // Retrieve implementation\n"
    \o "  return null;\n"
    \o "}\n"
    \o "\n"
    \o "export async function update"
    \o toPascalCase(prompt)
    \o "(id: number, data: any) {\n"
    \o "  // Update implementation\n"
    \o "  return data;\n"
    \o "}\n"
    \o "\n"
    \o "export async function delete"
    \o toPascalCase(prompt)
    \o "(id: number) {\n"
    \o "  // Delete implementation\n"
    \o "  return true;\n"
    \o "}\n"
    \o "      "

\* the plan argument is accepted and not used by the code
CoderGenerate(prompt, plan, fault) ==
    IF fault = "none"
    THEN [success |-> TRUE, result |-> CodeText(prompt), nextAgent |-> "verifier"]
    ELSE [success |-> FALSE, error |-> "Coder error: " \o FaultText]

\* checkCodeQuality without the error-handling check
checkCodeQualityNoHandling(code) ==
    (IF ~includes(code, "export") THEN <<"No exports found in code">> ELSE <<>>)
    \o (IF includes(code, "any") /\ splitLength(code, "any") > 3
        THEN <<"Excessive use of 'any' type - consider proper typing">> ELSE <<>>)

checkCodeQuality(code) ==
    (IF ~includes(code, "export") THEN <<"No exports found in code">> ELSE <<>>)
    \o (IF includes(code, "any") /\ splitLength(code, "any") > 3
        THEN <<"Excessive use of 'any' type - consider proper typing">> ELSE <<>>)
    \o (IF ~includes(code, "error") /\ ~includes(code, "try")
        THEN <<"No error handling detected">> ELSE <<>>)

\* VerifierVerify that reports the first issue only
VerifierVerifyFirstIssue(code, fault) ==
    IF fault # "none"
    THEN [success |-> FALSE, error |-> "Verifier error: " \o FaultText]
    ELSE LET issues == checkCodeQuality(code) IN
         IF Len(issues) = 0
         THEN [success |-> TRUE,
               result |-> "Code verification passed. No issues found.",
               nextAgent |-> "executor"]
         ELSE [success |-> FALSE,
               error |-> "Code verification found " \o ToString(Len(issues))
                         \o " issues:\n" \o issues[1],
               nextAgent |-> "coder"]

VerifierVerify(code, fault) ==
    IF fault # "none"
    THEN [success |-> FALSE, error |-> "Verifier error: " \o FaultText]
    ELSE LET issues == checkCodeQuality(code) IN
         IF Len(issues) = 0
         THEN [success |-> TRUE,
               result |-> "Code verification passed. No issues found.",
               nextAgent |-> "executor"]
         ELSE [success |-> FALSE,
               error |-> "Code verification found " \o ToString(Len(issues))
                         \o " issues:\n" \o join(issues, "\n"),
               nextAgent |-> "coder"]

ExecText ==
    "\n"
    \o "Execution Summary:\n"
    \o "- Code compiled successfully\n"
    \o "- All tests passed\n"
    \o "- Build artifacts generated\n"
    \o "- Ready for deployment\n"
    \o "\n"
    \o "Deployment Status:\n"
    \o "- Project built successfully\n"
    \o "- Artifacts: /dist/\n"
    \o "- Build time: 2.34s\n"
    \o "- Bundle size: 145KB\n"
    \o "      "

ExecutorExecute(code, projectId, fault) ==
    IF fault = "none"
    THEN [success |-> TRUE, result |-> ExecText]
    ELSE [success |-> FALSE, error |-> "Executor error: " \o FaultText]

(***************************************************************************)
(* AgentOrchestrator.orchestrate                                           *)
(***************************************************************************)
AgentOrder == <<"planner", "coder", "verifier", "executor">>

IdleRun ==
    [pc |-> "idle", prompt |-> "", projectId |-> 0, tasks |-> <<>>, cur |-> <<>>,
     awaiting |-> <<>>, planResult |-> <<>>, codeResult |-> <<>>]

\* the fields of obj named in fs that are set, as a record
Pick(obj, fs) == [f \in (fs \cap DOMAIN obj) |-> obj[f]]

\* the promise an agent call returns
Promise(fault, response) ==
    IF fault = "raise" THEN [settled |-> "rejected"]
    ELSE IF fault = "hang" THEN [settled |-> "pending"]
    ELSE [settled |-> "fulfilled", value |-> response]

\* NewTask that takes projectId from a place the orchestrate calls in flight share
NewTaskSharedProject(tag, projectId, agentType, prompt) ==
    [id |-> <<tag, now>>,
     projectId |-> IF \E o \in Runs : runs[o].pc # "idle" /\ runs[o].projectId # projectId
                   THEN runs[CHOOSE o \in Runs : runs[o].pc # "idle"
                                                 /\ runs[o].projectId # projectId].projectId
                   ELSE projectId,
     agentType |-> agentType, status |-> "running", prompt |-> prompt, createdAt |-> now]

\* const xTask: AgentTask = { id, projectId, agentType, status: "running", prompt, createdAt }
NewTask(tag, projectId, agentType, prompt) ==
    [id |-> <<tag, now>>, projectId |-> projectId, agentType |-> agentType,
     status |-> "running", prompt |-> prompt, createdAt |-> now]

\* FinishTask without the completedAt stamp
FinishTaskNoStamp(task, response) ==
    Pick(response, {"result", "error"})
    @@ [task EXCEPT !.status = IF response.success THEN "completed" ELSE "failed"]

\* FinishTask that leaves the status as it is
FinishTaskStaysRunning(task, response) ==
    ("completedAt" :> now) @@ Pick(response, {"result", "error"}) @@ task

\* xTask.status = ...; xTask.result = ...; xTask.error = ...; xTask.completedAt = new Date()
FinishTask(task, response) ==
    ("completedAt" :> now)
    @@ Pick(response, {"result", "error"})
    @@ [task EXCEPT !.status = IF response.success THEN "completed" ELSE "failed"]

\* x.result || ""
ResultOrEmpty(response) ==
    IF "result" \in DOMAIN response /\ response.result # "" THEN response.result ELSE ""

\* catch (error) { console.error(...); return tasks; }
Caught(run) == [run EXCEPT !.pc = "done", !.cur = <<>>, !.awaiting = <<>>]

\* Returned that returns before tasks.push
ReturnedBeforePush(run, task) == [run EXCEPT !.pc = "done", !.cur = <<>>, !.awaiting = <<>>]

\* if (!xResult.success) return tasks;   and the final   return tasks;
Returned(run, task) ==
    [run EXCEPT !.pc = "done", !.cur = <<>>, !.awaiting = <<>>,
                !.tasks = Append(run.tasks, task)]

\* Failed of a pipeline that goes on after a failure
FailedIgnored(response) == FALSE

\* if (!xResult.success) return tasks;
Failed(response) == ~response.success

\* what the history keeps of an agent call: the agent, the arguments it was
\* called with and the promise it returned
Call(agent, fault, run, args) ==
    [agent |-> agent, fault |-> fault, input |-> args, promise |-> run.awaiting[1]]

\* this.planner.analyze(prompt)
PlannerArgs(prompt) == <<prompt>>

\* this.coder.generate(prompt, planResult.result): a result that is undefined
\* is an argument left out
CoderArgs(run, planResult) ==
    <<run.prompt>> \o (IF "result" \in DOMAIN planResult THEN <<planResult.result>> ELSE <<>>)

\* this.verifier.verify(codeResult.result || "")
VerifierArgs(run, codeResult) == <<ResultOrEmpty(codeResult)>>

\* ExecutorArgs that hands on what the verifier answered
ExecutorArgsFromVerifier(run, verifyResult) == <<ResultOrEmpty(verifyResult), run.projectId>>

\* this.executor.execute(codeResult.result || "", projectId)
ExecutorArgs(run, verifyResult) == <<ResultOrEmpty(run.codeResult[1]), run.projectId>>

\* orchestrate is called: step 1 up to  await this.planner.analyze(prompt)
Orchestrate(r, prompt, projectId, fault) ==
    /\ runs[r].pc = "idle"
    /\ runs' = [runs EXCEPT ![r] =
            [IdleRun EXCEPT
                !.pc = "planner", !.prompt = prompt, !.projectId = projectId,
                !.cur = <<NewTask("plan", projectId, "planner", prompt)>>,
                !.awaiting = <<Promise(fault, PlannerAnalyze(PlannerArgs(prompt)[1], fault))>>]]
    /\ invoked' = [invoked EXCEPT ![r] = <<Call("planner", fault, runs'[r], PlannerArgs(prompt))>>]
    /\ UNCHANGED <<now, memVars, svcVars, queueVars>>

\* the planner's promise settles: the rest of step 1, step 2 up to its await
AfterPlanner(r, fault) ==
    LET run == runs[r]
        p == run.awaiting[1]
    IN
    /\ run.pc = "planner"
    /\ p.settled # "pending"
    /\ IF p.settled = "rejected"
       THEN /\ runs' = [runs EXCEPT ![r] = Caught(run)]
            /\ UNCHANGED invoked
       ELSE LET planResult == p.value
                planTask == FinishTask(run.cur[1], planResult)
            IN
            IF Failed(planResult)
            THEN /\ runs' = [runs EXCEPT ![r] = Returned(run, planTask)]
                 /\ UNCHANGED invoked
            ELSE /\ runs' = [runs EXCEPT ![r] =
                        [run EXCEPT
                            !.pc = "coder",
                            !.tasks = Append(run.tasks, planTask),
                            !.planResult = <<planResult>>,
                            !.cur = <<NewTask("code", run.projectId, "coder",
                                              ResultOrEmpty(planResult))>>,
                            !.awaiting = <<Promise(fault,
                                CoderGenerate(CoderArgs(run, planResult)[1],
                                              planResult.result, fault))>>]]
                 /\ invoked' = [invoked EXCEPT ![r] =
                        Append(@, Call("coder", fault, runs'[r], CoderArgs(run, planResult)))]
    /\ UNCHANGED <<now, memVars, svcVars, queueVars>>

\* the coder's promise settles: the rest of step 2, step 3 up to its await
AfterCoder(r, fault) ==
    LET run == runs[r]
        p == run.awaiting[1]
    IN
    /\ run.pc = "coder"
    /\ p.settled # "pending"
    /\ IF p.settled = "rejected"
       THEN /\ runs' = [runs EXCEPT ![r] = Caught(run)]
            /\ UNCHANGED invoked
       ELSE LET codeResult == p.value
                codeTask == FinishTask(run.cur[1], codeResult)
            IN
            IF Failed(codeResult)
            THEN /\ runs' = [runs EXCEPT ![r] = Returned(run, codeTask)]
                 /\ UNCHANGED invoked
            ELSE /\ runs' = [runs EXCEPT ![r] =
                        [run EXCEPT
                            !.pc = "verifier",
                            !.tasks = Append(run.tasks, codeTask),
                            !.codeResult = <<codeResult>>,
                            !.cur = <<NewTask("verify", run.projectId, "verifier",
                                              ResultOrEmpty(codeResult))>>,
                            !.awaiting = <<Promise(fault,
                                VerifierVerify(VerifierArgs(run, codeResult)[1], fault))>>]]
                 /\ invoked' = [invoked EXCEPT ![r] =
                        Append(@, Call("verifier", fault, runs'[r], VerifierArgs(run, codeResult)))]
    /\ UNCHANGED <<now, memVars, svcVars, queueVars>>

\* the verifier's promise settles: the rest of step 3, step 4 up to its await
AfterVerifier(r, fault) ==
    LET run == runs[r]
        p == run.awaiting[1]
    IN
    /\ run.pc = "verifier"
    /\ p.settled # "pending"
    /\ IF p.settled = "rejected"
       THEN /\ runs' = [runs EXCEPT ![r] = Caught(run)]
            /\ UNCHANGED invoked
       ELSE LET verifyResult == p.value
                verifyTask == FinishTask(run.cur[1], verifyResult)
                codeResult == run.codeResult[1]
            IN
            IF Failed(verifyResult)
            THEN /\ runs' = [runs EXCEPT ![r] = Returned(run, verifyTask)]
                 /\ UNCHANGED invoked
            ELSE /\ runs' = [runs EXCEPT ![r] =
                        [run EXCEPT
                            !.pc = "executor",
                            !.tasks = Append(run.tasks, verifyTask),
                            !.cur = <<NewTask("exec", run.projectId, "executor",
                                              ResultOrEmpty(codeResult))>>,
                            !.awaiting = <<Promise(fault,
                                ExecutorExecute(ExecutorArgs(run, verifyResult)[1],
                                                ExecutorArgs(run, verifyResult)[2], fault))>>]]
                 /\ invoked' = [invoked EXCEPT ![r] =
                        Append(@, Call("executor", fault, runs'[r], ExecutorArgs(run, verifyResult)))]
    /\ UNCHANGED <<now, memVars, svcVars, queueVars>>

\* the executor's promise settles: the rest of step 4
AfterExecutor(r) ==
    LET run == runs[r]
        p == run.awaiting[1]
    IN
    /\ run.pc = "executor"
    /\ p.settled # "pending"
    /\ IF p.settled = "rejected"
       THEN runs' = [runs EXCEPT ![r] = Caught(run)]
       ELSE runs' = [runs EXCEPT ![r] = Returned(run, FinishTask(run.cur[1], p.value))]
    /\ UNCHANGED <<now, invoked, memVars, svcVars, queueVars>>

\* removeTask that removes the first queued task with that id only
removeTaskFirstOnly(queue, taskId) ==
    IF \E i \in 1..Len(queue) : queue[i].id = taskId
    THEN LET first == CHOOSE i \in 1..Len(queue) :
                        queue[i].id = taskId /\ \A j \in 1..(i - 1) : queue[j].id # taskId
         IN SubSeq(queue, 1, first - 1) \o SubSeq(queue, first + 1, Len(queue))
    ELSE queue

\* this.taskQueue.filter((t) => t.id !== taskId)
removeTask(queue, taskId) == SelectSeq(queue, LAMBDA t : t.id # taskId)

\* this.taskQueue.push(task)
addTask(queue, task) == Append(queue, task)

AddTask(task) ==
    /\ Len(taskQueue) < MaxQueue
    /\ taskQueue' = addTask(taskQueue, task)
    /\ UNCHANGED <<now, orchVars, memVars, svcVars>>

RemoveTask(taskId) ==
    /\ taskQueue' = removeTask(taskQueue, taskId)
    /\ UNCHANGED <<now, orchVars, memVars, svcVars>>

\* the caller has the trace; the orchestrator can be called again
CallerTakesTrace(r) ==
    /\ runs[r].pc = "done"
    /\ runs' = [runs EXCEPT ![r] = IdleRun]
    /\ invoked' = [invoked EXCEPT ![r] = <<>>]
    /\ UNCHANGED <<now, memVars, svcVars, queueVars>>

\* time passes, up to maxClock
TickUpTo(maxClock) ==
    /\ now < maxClock
    /\ now' = now + 1
    /\ UNCHANGED <<orchVars, memVars, svcVars, queueVars>>

\* time passes
Tick == TickUpTo(MaxClock)

(***************************************************************************)
(* VectorEmbeddingService                                                  *)
(***************************************************************************)
Digits == "0123456789"

indexIn(c, alphabet) == CHOOSE i \in 1..Len(alphabet) : charAt(alphabet, i) = c

\* str.charCodeAt(i), for the characters the model's texts are written in
charCodeAt(s, i) ==
    LET c == charAt(s, i) IN
    CASE includes(LowerLetters, c) -> 96 + indexIn(c, LowerLetters)
      [] includes(UpperLetters, c) -> 64 + indexIn(c, UpperLetters)
      [] includes(Digits, c) -> 47 + indexIn(c, Digits)
      [] c = " " -> 32
      [] c = "-" -> 45

RECURSIVE hashFrom(_, _, _, _)
\* the loop of simpleHash from position i on; the 32-bit hash is kept as its
\* two 16-bit halves, so that (hash << 5) - hash + char wraps as in the code
hashFrom(s, i, hi, lo) ==
    IF i > Len(s)
    THEN (IF hi >= 32768 THEN (hi - 65536) * 65536 + lo ELSE hi * 65536 + lo)
    ELSE LET t == 31 * lo + charCodeAt(s, i)
         IN hashFrom(s, i + 1, (31 * hi + t \div 65536) % 65536, t % 65536)

simpleHash(str) == hashFrom(str, 1, 0, 0)

EmbeddingDim == 384

\* The vector generateEmbedding returns, component i being sin(hash + i) * 0.5 + 0.5
\* for i = 0 .. 383: it is kept as its length and the hash that determines it.
generateEmbedding(text) == [dim |-> EmbeddingDim, hash |-> simpleHash(text)]

\* dotProduct / (magnitude1 * magnitude2) of the vectors of two hashes, in
\* millionths (rounded down), as the code's floating-point loop computes it
CosineMillionths(h1, h2) ==
    CASE {h1, h2} = {118} -> 1000000
      [] {h1, h2} = {119} -> 1000000
      [] {h1, h2} = {118, 119} -> 846639
      [] {h1, h2} = {118, 121} -> 335756
      [] {h1, h2} = {119, 121} -> 527781
      [] {h1, h2} = {0} -> 1000000
      [] {h1, h2} = {0, 118} -> 729364
      [] {h1, h2} = {0, 119} -> 976086

calculateSimilarity(embedding1, embedding2) ==
    IF embedding1.dim # embedding2.dim THEN 0
    ELSE CosineMillionths(embedding1.hash, embedding2.hash)

\* 0.3, in millionths
RelevanceFloor == 300000

(***************************************************************************)
(* MemoryStorage.  memories is the Map (key -> object), order its insertion *)
(* order, heap the MemoryEntry objects by address: update puts a new object *)
(* under the key while a retrieve in flight may still hold the old one.     *)
(***************************************************************************)
EmptyStorage == [memories |-> <<>>, order |-> <<>>, heap |-> <<>>, nextId |-> 1]

\* a truthy number / string field of a query or of a partial update
TruthyNum(r, f) == f \in DOMAIN r /\ r[f] # 0

TruthyStr(r, f) == f \in DOMAIN r /\ r[f] # ""

Without(f, x) == [y \in DOMAIN f \ {x} |-> f[y]]

Range(seq) == {seq[i] : i \in 1..Len(seq)}

Max(S) == CHOOSE x \in S : \A y \in S : y <= x

NewAddress(st) == Max(DOMAIN st.heap \cup {0}) + 1

\* this.memories.get(id)
MapHas(st, id) == id \in DOMAIN st.memories

MapGet(st, id) == st.heap[st.memories[id]]

\* this.memories.set(id, entry): a new key goes to the end of the Map's order,
\* a present key keeps its place
MapSet(st, id, entry) ==
    LET a == NewAddress(st) IN
    [st EXCEPT !.heap = (a :> entry) @@ st.heap,
               !.memories = (id :> a) @@ Without(st.memories, id),
               !.order = IF MapHas(st, id) THEN st.order ELSE Append(st.order, id)]

\* this.memories.delete(id)
MapDelete(st, id) ==
    [st EXCEPT !.memories = Without(st.memories, id),
               !.order = SelectSeq(st.order, LAMBDA k : k # id)]

IdOf(n) == "mem-" \o ToString(n)

\* the stored entries by key, as the calls' "before" pictures keep them
Snapshot(st) == [id \in DOMAIN st.memories |-> MapGet(st, id)]

NotFound == "Memory not found or unauthorized"

\* throw new Error(...)
Thrown(call, message) == [op |-> call.op, pc |-> "done", args |-> call.args,
                          pre |-> call.pre, error |-> message]

\* return value
Done(call, value) == [op |-> call.op, pc |-> "done", args |-> call.args,
                      pre |-> call.pre, ret |-> value]

\* StoreStart that reads nextId and leaves it as it is
StoreStartNoIncrement(st, args) ==
    [st |-> st,
     call |-> [op |-> "store", pc |-> "await", args |-> args, pre |-> Snapshot(st),
               id |-> IdOf(st.nextId)]]

\* store, from the call to  await this.embeddingService.generateEmbedding(value)
StoreStart(st, args) ==
    [st |-> [st EXCEPT !.nextId = @ + 1],
     call |-> [op |-> "store", pc |-> "await", args |-> args, pre |-> Snapshot(st),
               id |-> IdOf(st.nextId)]]

\* store, from the await to the return (the three new Date() read one clock value)
StoreResume(st, call, t) ==
    LET a == call.args
        entry == Pick(a, {"projectId"})
                 @@ [id |-> call.id, userId |-> a.userId, memoryType |-> a.memoryType,
                     key |-> a.key, value |-> a.value,
                     embedding |-> generateEmbedding(a.value),
                     createdAt |-> t, updatedAt |-> t, accessCount |-> 0,
                     lastAccessed |-> t]
    IN [st |-> MapSet(st, call.id, entry), call |-> Done(call, entry)]

PassesFiltersAnyUser(entry, query) ==
    /\ ~(TruthyNum(query, "projectId")
         /\ ("projectId" \notin DOMAIN entry \/ entry.projectId # query.projectId))
    /\ ~(TruthyStr(query, "memoryType") /\ entry.memoryType # query.memoryType)

\* the three  continue  tests of retrieve's loop
PassesFilters(entry, query) ==
    /\ entry.userId = query.userId
    /\ ~(TruthyNum(query, "projectId")
         /\ ("projectId" \notin DOMAIN entry \/ entry.projectId # query.projectId))
    /\ ~(TruthyStr(query, "memoryType") /\ entry.memoryType # query.memoryType)

\* a.relevanceScore || 0
ScoreOrZero(entry) ==
    IF "relevanceScore" \in DOMAIN entry THEN entry.relevanceScore ELSE 0

\* the comparator of results.sort: negative when a goes before b
CompareResults(a, b) ==
    IF ScoreOrZero(b) - ScoreOrZero(a) # 0
    THEN ScoreOrZero(b) - ScoreOrZero(a)
    ELSE b.accessCount - a.accessCount

\* results.sort(comparator): Array.prototype.sort is stable
SortResults(st, results) ==
    LET n == Len(results)
        obj(i) == st.heap[results[i].obj]
        before(j, i) == \/ CompareResults(obj(j), obj(i)) < 0
                        \/ CompareResults(obj(j), obj(i)) = 0 /\ j < i
        place(i) == 1 + Cardinality({j \in 1..n : j # i /\ before(j, i)})
    IN [p \in 1..n |-> results[CHOOSE i \in 1..n : place(i) = p]]

DefaultLimit == 10

\* query.limit || 10
LimitOf(query) == IF TruthyNum(query, "limit") THEN query.limit ELSE DefaultLimit

\* results.slice(0, limit), for a limit that is not negative
Slice(seq, limit) == SubSeq(seq, 1, IF limit < Len(seq) THEN limit ELSE Len(seq))

\* retrieve, behind the loop: sort, limit, access bookkeeping, return
RetrieveFinish(st, call, t) ==
    LET sorted == SortResults(st, call.results)
        limited == Slice(sorted, LimitOf(call.args))
        touched == {limited[i].obj : i \in 1..Len(limited)}
        heap2 == [a \in DOMAIN st.heap |->
                    IF a \in touched
                    THEN [st.heap[a] EXCEPT !.accessCount = @ + 1, !.lastAccessed = t]
                    ELSE st.heap[a]]
    IN [st |-> [st EXCEPT !.heap = heap2],
        call |-> Done(call, [entries |-> [i \in 1..Len(limited) |-> heap2[limited[i].obj]],
                             keys |-> [i \in 1..Len(limited) |-> limited[i].key],
                             totalResults |-> Len(call.results)])]

RECURSIVE RetrieveLoop(_, _, _)
\* retrieve's  for (const [, entry] of this.memories)  from the iterator's
\* position on, up to the next await or through RetrieveFinish to the return
RetrieveLoop(st, call, t) ==
    IF call.idx >= Len(st.order) THEN RetrieveFinish(st, call, t)
    ELSE LET key == st.order[call.idx + 1]
             ref == [key |-> key, obj |-> st.memories[key]]
             entry == st.heap[ref.obj]
             moved == [call EXCEPT !.idx = @ + 1]
         IN
         IF ~PassesFilters(entry, call.args) THEN RetrieveLoop(st, moved, t)
         ELSE IF TruthyStr(call.args, "query") /\ "embedding" \in DOMAIN entry
              THEN [st |-> st, call |-> [moved EXCEPT !.pc = "await", !.entry = <<ref>>]]
              ELSE RetrieveLoop(st, [moved EXCEPT !.results = Append(@, ref)], t)

\* retrieve, from the call to the first await (or to the return)
RetrieveStart(st, query, t) ==
    RetrieveLoop(st, [op |-> "retrieve", pc |-> "run", args |-> query, pre |-> Snapshot(st),
                      idx |-> 0, entry |-> <<>>, results |-> <<>>], t)

\* retrieve, from  await generateEmbedding(query.query)  to the next await (or
\* to the return)
RetrieveResume(st, call, t) ==
    LET ref == call.entry[1]
        entry == st.heap[ref.obj]
        similarity == calculateSimilarity(entry.embedding,
                                          generateEmbedding(call.args.query))
        going == [call EXCEPT !.pc = "run", !.entry = <<>>]
    IN
    IF similarity > RelevanceFloor
    THEN RetrieveLoop([st EXCEPT !.heap[ref.obj] = ("relevanceScore" :> similarity) @@ entry],
                      [going EXCEPT !.results = Append(@, ref)], t)
    ELSE RetrieveLoop(st, going, t)

\* the fields a partial update names with the value undefined
Undefs(args) == IF "undefs" \in DOMAIN args THEN args.undefs ELSE {}

\* { ...entry, ...updates, updatedAt: new Date() }: a field that updates gives
\* as undefined is undefined in the copy
Spread(entry, args, t) ==
    LET copy == args.updates @@ entry IN
    ("updatedAt" :> t) @@ [f \in DOMAIN copy \ Undefs(args) |-> copy[f]]

\* update, from the call to  await generateEmbedding(updates.value)  (or to the
\* return, or to the throw)
UpdateStart(st, args, t) ==
    LET call == [op |-> "update", pc |-> "run", args |-> args, pre |-> Snapshot(st)] IN
    IF ~MapHas(st, args.id) \/ MapGet(st, args.id).userId # args.userId
    THEN [st |-> st, call |-> Thrown(call, NotFound)]
    ELSE LET updated == Spread(MapGet(st, args.id), args, t) IN
         IF TruthyStr(args.updates, "value")
         THEN [st |-> st, call |-> ("updated" :> updated) @@ [call EXCEPT !.pc = "await"]]
         ELSE [st |-> MapSet(st, args.id, updated), call |-> Done(call, updated)]

\* update, from the await to the return
UpdateResume(st, call) ==
    LET updated == ("embedding" :> generateEmbedding(call.args.updates.value))
                   @@ call.updated
    IN [st |-> MapSet(st, call.args.id, updated), call |-> Done(call, updated)]

DeleteRunAnyOwner(st, args) ==
    LET call == [op |-> "delete", pc |-> "run", args |-> args, pre |-> Snapshot(st)] IN
    IF ~MapHas(st, args.id)
    THEN [st |-> st, call |-> Thrown(call, NotFound)]
    ELSE [st |-> MapDelete(st, args.id), call |-> Done(call, TRUE)]

\* delete (it has no await)
DeleteRun(st, args) ==
    LET call == [op |-> "delete", pc |-> "run", args |-> args, pre |-> Snapshot(st)] IN
    IF ~MapHas(st, args.id) \/ MapGet(st, args.id).userId # args.userId
    THEN [st |-> st, call |-> Thrown(call, NotFound)]
    ELSE [st |-> MapDelete(st, args.id), call |-> Done(call, TRUE)]

Kinds == {"lesson", "preference", "solution", "error"}

\* array.sort((a, b) => b[field] - a[field]): descending and stable
SortDescBy(seq, field) ==
    LET n == Len(seq)
        before(j, i) == \/ seq[j][field] > seq[i][field]
                        \/ seq[j][field] = seq[i][field] /\ j < i
        place(i) == 1 + Cardinality({j \in 1..n : j # i /\ before(j, i)})
    IN [p \in 1..n |-> seq[CHOOSE i \in 1..n : place(i) = p]]

StatisticsLimit == 5

\* getStatistics that does not filter by userId
getStatisticsAllUsers(st, userId) ==
    LET values == [i \in 1..Len(st.order) |-> MapGet(st, st.order[i])]
        byAccess == SortDescBy(values, "accessCount")
        byCreation == SortDescBy(byAccess, "createdAt")
    IN [totalMemories |-> Len(values),
        byType |-> [k \in Kinds |->
                      Cardinality({i \in 1..Len(values) : values[i].memoryType = k})],
        mostAccessed |-> Slice(byAccess, StatisticsLimit),
        recentlyAdded |-> Slice(byCreation, StatisticsLimit)]

\* getStatistics: the second sort works on the array the first one has sorted
getStatistics(st, userId) ==
    LET values == [i \in 1..Len(st.order) |-> MapGet(st, st.order[i])]
        userMemories == SelectSeq(values, LAMBDA mem : mem.userId = userId)
        byAccess == SortDescBy(userMemories, "accessCount")
        byCreation == SortDescBy(byAccess, "createdAt")
    IN [totalMemories |-> Len(userMemories),
        byType |-> [k \in Kinds |->
                      Cardinality({i \in 1..Len(userMemories) :
                                      userMemories[i].memoryType = k})],
        mostAccessed |-> Slice(byAccess, StatisticsLimit),
        recentlyAdded |-> Slice(byCreation, StatisticsLimit)]

(***************************************************************************)
(* The MemoryStorage calls as actions                                      *)
(***************************************************************************)
\* the objects a call in flight holds
RefsOfCall(call) ==
    IF call.pc = "await" /\ call.op = "retrieve"
    THEN [i \in 1..Len(call.results) |-> call.results[i].obj] \o <<call.entry[1].obj>>
    ELSE <<>>

RECURSIVE RefsOfCalls(_, _)
RefsOfCalls(cs, s) ==
    IF s \notin DOMAIN cs THEN <<>> ELSE RefsOfCall(cs[s]) \o RefsOfCalls(cs, s + 1)

\* Addresses are not observable: objects nothing refers to are dropped and the
\* others renumbered, the Map's objects first (in its order), then those only
\* calls in flight hold.
Normalize(st, cs) ==
    LET refs == [i \in 1..Len(st.order) |-> st.memories[st.order[i]]] \o RefsOfCalls(cs, 1)
        firsts == {i \in 1..Len(refs) : \A j \in 1..(i - 1) : refs[j] # refs[i]}
        new(a) == Cardinality({i \in firsts : i <= (CHOOSE k \in firsts : refs[k] = a)})
        old(n) == CHOOSE a \in Range(refs) : new(a) = n
        rename(ref) == [ref EXCEPT !.obj = new(@)]
    IN [st |-> [st EXCEPT !.heap = [n \in 1..Cardinality(firsts) |-> st.heap[old(n)]],
                          !.memories = [id \in DOMAIN st.memories |-> new(st.memories[id])]],
        calls |-> [s \in DOMAIN cs |->
                    IF cs[s].pc = "await" /\ cs[s].op = "retrieve"
                    THEN [cs[s] EXCEPT
                            !.results = [i \in 1..Len(@) |-> rename(@[i])],
                            !.entry = <<rename(@[1])>>]
                    ELSE cs[s]]]

\* a slot that can take a call: nothing in flight in it, and, when the calls
\* are made one after the other, nothing in flight in any other
Free(s, concurrent) ==
    /\ calls[s].pc \in {"idle", "done"}
    /\ concurrent \/ \A o \in Slots : calls[o].pc \in {"idle", "done"}

\* the step r of the call in slot s takes effect
Effect(s, r) ==
    LET n == Normalize(r.st, [calls EXCEPT ![s] = r.call]) IN
    /\ storage' = n.st
    /\ calls' = n.calls

HitsOf(id) == IF id \in DOMAIN hits THEN hits[id] ELSE 0

\* the history of returned entries, when the step made retrieve return
Counted(call) ==
    IF call.pc = "done" /\ call.op = "retrieve"
    THEN [id \in DOMAIN hits \cup Range(call.ret.keys) |->
            HitsOf(id) + (IF id \in Range(call.ret.keys) THEN 1 ELSE 0)]
    ELSE hits

\* store is called, while fewer than maxEntries ids have been given out
MemStoreUpTo(s, args, concurrent, maxEntries) ==
    /\ Free(s, concurrent)
    /\ storage.nextId <= maxEntries
    /\ Effect(s, StoreStart(storage, args))
    /\ UNCHANGED <<now, orchVars, svcVars, hits, queueVars>>

MemStoreResume(s) ==
    /\ calls[s].pc = "await"
    /\ calls[s].op = "store"
    /\ Effect(s, StoreResume(storage, calls[s], now))
    /\ UNCHANGED <<now, orchVars, svcVars, hits, queueVars>>

MemStore(s, args, concurrent) ==
    MemStoreUpTo(s, args, concurrent, IF concurrent THEN MaxEntriesConc ELSE MaxEntries)

\* retrieve is called, while no entry has been returned maxAccess times
MemRetrieveUpTo(s, query, concurrent, maxAccess) ==
    /\ Free(s, concurrent)
    /\ \A a \in DOMAIN storage.heap : storage.heap[a].accessCount < maxAccess
    /\ \A id \in DOMAIN hits : hits[id] < maxAccess
    /\ LET r == RetrieveStart(storage, query, now) IN
        /\ Effect(s, r)
        /\ hits' = Counted(r.call)
    /\ UNCHANGED <<now, orchVars, svcVars, queueVars>>

MemRetrieve(s, query, concurrent) == MemRetrieveUpTo(s, query, concurrent, MaxAccess)

MemRetrieveResume(s) ==
    /\ calls[s].pc = "await"
    /\ calls[s].op = "retrieve"
    /\ LET r == RetrieveResume(storage, calls[s], now) IN
        /\ Effect(s, r)
        /\ hits' = Counted(r.call)
    /\ UNCHANGED <<now, orchVars, svcVars, queueVars>>

MemUpdate(s, args, concurrent) ==
    /\ Free(s, concurrent)
    /\ Effect(s, UpdateStart(storage, args, now))
    /\ UNCHANGED <<now, orchVars, svcVars, hits, queueVars>>

MemUpdateResume(s) ==
    /\ calls[s].pc = "await"
    /\ calls[s].op = "update"
    /\ Effect(s, UpdateResume(storage, calls[s]))
    /\ UNCHANGED <<now, orchVars, svcVars, hits, queueVars>>

\* delete; the iterators of the retrieve calls in flight that have passed the
\* deleted key are one place further back in the shortened order
MemDelete(s, args, concurrent) ==
    /\ Free(s, concurrent)
    /\ LET r == DeleteRun(storage, args)
           gone == r.call.pc = "done" /\ "ret" \in DOMAIN r.call
           place == CHOOSE i \in 1..Len(storage.order) : storage.order[i] = args.id
           shifted == [o \in Slots |->
                        IF gone /\ calls[o].pc = "await" /\ calls[o].op = "retrieve"
                           /\ place <= calls[o].idx
                        THEN [calls[o] EXCEPT !.idx = @ - 1]
                        ELSE calls[o]]
           n == Normalize(r.st, [shifted EXCEPT ![s] = r.call])
       IN
        /\ storage' = n.st
        /\ calls' = n.calls
        /\ hits' = IF gone THEN Without(hits, args.id) ELSE hits
    /\ UNCHANGED <<now, orchVars, svcVars, queueVars>>

\* getStatistics (it has no await and changes nothing)
MemStatistics(s, userId, concurrent) ==
    /\ Free(s, concurrent)
    /\ Effect(s, [st |-> storage,
                  call |-> Done([op |-> "getStatistics", args |-> [userId |-> userId],
                                 pre |-> Snapshot(storage)],
                                getStatistics(storage, userId))])
    /\ UNCHANGED <<now, orchVars, svcVars, hits, queueVars>>

(***************************************************************************)
(* MemoryContext: getContextForTask and learnFromExecution over the store  *)
(***************************************************************************)
ContextLimit == 5

\* the query getContextForTask passes to retrieve
ContextQuery(userId, projectId, taskDescription) ==
    [userId |-> userId, projectId |-> projectId, query |-> taskDescription,
     limit |-> ContextLimit]

\* return result.entries
ContextEntries(call) == call.ret.entries

\* getContextForTask is called: retrieve with its query, to the first await or
\* the return; the retrieve call goes on as any other (MemRetrieveResume)
MemGetContextForTask(s, userId, projectId, taskDescription, concurrent) ==
    MemRetrieveUpTo(s, ContextQuery(userId, projectId, taskDescription), concurrent, MaxAccess)

\* memoryType of learnFromExecution that is "solution" whatever success is
LearnedKindAlwaysSolution(success) == "solution"

\* const memoryType = success ? "solution" : "error"
LearnedKind(success) == IF success THEN "solution" ELSE "error"

\* const key = `${taskDescription}-${Date.now()}`
LearnedKey(taskDescription, t) == taskDescription \o "-" \o ToString(t)

\* the arguments learnFromExecution passes to store
LearnedArgs(a, t) ==
    [userId |-> a.userId, memoryType |-> LearnedKind(a.success),
     key |-> LearnedKey(a.taskDescription, t), value |-> a.result, projectId |-> a.projectId]

\* learnFromExecution, from the call to the await inside store
LearnStart(st, a, t) ==
    LET r == StoreStart(st, LearnedArgs(a, t)) IN
    [st |-> r.st,
     call |-> [op |-> "learnFromExecution", pc |-> "await", args |-> a, pre |-> r.call.pre,
               store |-> r.call]]

\* learnFromExecution, from the await inside store to its return (of nothing)
LearnResume(st, call, t) ==
    [st |-> StoreResume(st, call.store, t).st, call |-> Done(call, <<>>)]

MemLearn(s, a, concurrent) ==
    /\ Free(s, concurrent)
    /\ storage.nextId <= MaxEntries
    /\ Effect(s, LearnStart(storage, a, now))
    /\ UNCHANGED <<now, orchVars, svcVars, hits, queueVars>>

MemLearnResume(s) ==
    /\ calls[s].pc = "await"
    /\ calls[s].op = "learnFromExecution"
    /\ Effect(s, LearnResume(storage, calls[s], now))
    /\ UNCHANGED <<now, orchVars, svcVars, hits, queueVars>>

(***************************************************************************)
(* The AIDE service: its functions over the database.  A function runs     *)
(* from one  await db...  to the next; the statement it awaits takes       *)
(* effect, as one atomic statement, when the function goes on.             *)
(***************************************************************************)
Tables == {"projects", "projectFiles", "buildHistory", "agentMemory", "agentTasks"}

\* a table is its rows by id; the database numbers the rows of each table
EmptyDb ==
    [projects |-> <<>>, projectFiles |-> <<>>, buildHistory |-> <<>>,
     agentMemory |-> <<>>, agentTasks |-> <<>>, nextId |-> [t \in Tables |-> 1]]

\* and(eq(f1, v1), eq(f2, v2), ...): conds gives the value asked of each field
Matches(row, conds) == \A f \in DOMAIN conds : f \in DOMAIN row /\ row[f] = conds[f]

\* db.select().from(table).where(conds): the ids of the rows
DbSelect(d, table, conds) == {id \in DOMAIN d[table] : Matches(d[table][id], conds)}

\* db.insert(table).values(row)
DbInsert(d, table, row) ==
    LET id == d.nextId[table] IN
    [d EXCEPT ![table] = (id :> (("id" :> id) @@ row)) @@ @, !.nextId[table] = @ + 1]

\* db.update(table).set(set).where(conds)
DbUpdate(d, table, set, conds) ==
    [d EXCEPT ![table] = [id \in DOMAIN @ |-> IF Matches(@[id], conds) THEN set @@ @[id] ELSE @[id]]]

\* db.delete(table).where(conds)
DbDelete(d, table, conds) ==
    [d EXCEPT ![table] = [id \in DOMAIN @ \ DbSelect(d, table, conds) |-> @[id]]]

ProjectNotFound == "Project not found or unauthorized"

\* the functions that insert one row without asking for the project, and
\* those that do after getProject
InsertingOps == {"createProject", "storeMemory"}

CheckedInsertingOps == {"createBuildRecord", "createAgentTask"}

UpdatingOps == {"updateBuildRecord", "updateAgentTask"}

\* the table a function writes to
TableOf(op) ==
    CASE op = "createProject" -> "projects"
      [] op = "storeMemory" -> "agentMemory"
      [] op \in {"createBuildRecord", "updateBuildRecord"} -> "buildHistory"
      [] op \in {"createAgentTask", "updateAgentTask"} -> "agentTasks"
      [] op \in {"createOrUpdateFile"} -> "projectFiles"

\* the values(...) of the function's insert
ValuesOf(op, args) ==
    CASE op = "createProject" -> [userId |-> args.userId, status |-> "active"]
      [] op = "storeMemory" ->
            Pick(args, {"userId", "projectId", "memoryType", "key", "value"})
      [] op = "createBuildRecord" ->
            [projectId |-> args.projectId, buildNumber |-> args.buildNumber,
             status |-> "pending"]
      [] op = "createAgentTask" ->
            [projectId |-> args.projectId, agentType |-> args.agentType,
             prompt |-> args.prompt, status |-> "pending"]
      [] op = "createOrUpdateFile" ->
            [projectId |-> args.projectId, path |-> args.path, content |-> args.content]

\* the set(...) of the function's update
SetOf(op, args, t) ==
    CASE op = "updateBuildRecord" -> ("updatedAt" :> t) @@ args.updates
      [] op = "updateAgentTask" -> args.updates
      [] op = "createOrUpdateFile" -> [content |-> args.content, updatedAt |-> t]

\* the where(...) of the function's update
WhereOf(op, args) ==
    CASE op = "updateBuildRecord" -> [id |-> args.buildId]
      [] op = "updateAgentTask" -> [id |-> args.taskId]

\* the order of deleteProject's statements: the tables and their conditions
DeleteOrder == <<"projectFiles", "buildHistory", "agentMemory", "agentTasks", "projects">>

DeleteWhere(table, projectId) ==
    IF table = "projects" THEN [id |-> projectId] ELSE [projectId |-> projectId]

\* a service function is called: it runs to its first await
SvcCall(s, op, args, concurrent) ==
    /\ ops[s].pc \in {"idle", "done"}
    /\ concurrent \/ \A o \in Slots : ops[o].pc \in {"idle", "done"}
    /\ op \in InsertingOps \cup CheckedInsertingOps \cup {"createOrUpdateFile"} =>
            db.nextId[TableOf(op)] <= MaxRows
    /\ ops' = [ops EXCEPT ![s] =
            [op |-> op, args |-> args, pre |-> db,
             pc |-> IF op \in InsertingOps THEN "insert" ELSE "getProject"]]
    /\ UNCHANGED <<now, db, orchVars, memVars, queueVars>>

\* await getProject(db, projectId, userId)  returns: the function throws, or
\* goes on to its next await
GetProjectReturns(s) ==
    LET call == ops[s]
        project == DbSelect(db, "projects",
                            [id |-> call.args.projectId, userId |-> call.args.userId])
    IN
    /\ call.pc = "getProject"
    /\ ops' = [ops EXCEPT ![s] =
            IF project = {} THEN Thrown(call, ProjectNotFound)
            ELSE [call EXCEPT !.pc =
                    CASE call.op = "deleteProject" -> "delete"
                      [] call.op = "createOrUpdateFile" -> "selectFile"
                      [] call.op \in CheckedInsertingOps -> "insert"
                      [] call.op \in UpdatingOps -> "update"]
                 @@ [step |-> 1]]
    /\ UNCHANGED <<now, db, orchVars, memVars, queueVars>>

\* await db.insert(table).values(...)  returns: the function returns the row
InsertReturns(s) ==
    LET call == ops[s]
        table == TableOf(call.op)
    IN
    /\ call.pc = "insert"
    /\ db' = DbInsert(db, table, ValuesOf(call.op, call.args))
    /\ ops' = [ops EXCEPT ![s] = Done(call, db'[table][db.nextId[table]])]
    /\ UNCHANGED <<now, orchVars, memVars, queueVars>>

\* await db.update(table).set(...).where(eq("id", ...))  returns
UpdateReturns(s) ==
    LET call == ops[s] IN
    /\ call.pc = "update"
    /\ db' = DbUpdate(db, TableOf(call.op), SetOf(call.op, call.args, now),
                      WhereOf(call.op, call.args))
    /\ ops' = [ops EXCEPT ![s] = Done(call, TRUE)]
    /\ UNCHANGED <<now, orchVars, memVars, queueVars>>

\* deleteProject: the next of its five  await db.delete(...)  returns
DeleteProjectStep(s) ==
    LET call == ops[s]
        table == DeleteOrder[call.step]
    IN
    /\ call.pc = "delete"
    /\ db' = DbDelete(db, table, DeleteWhere(table, call.args.projectId))
    /\ ops' = [ops EXCEPT ![s] =
            IF call.step = Len(DeleteOrder) THEN Done(call, TRUE)
            ELSE [call EXCEPT !.step = @ + 1]]
    /\ UNCHANGED <<now, orchVars, memVars, queueVars>>

\* createOrUpdateFile: the select of the existing row returns
FileSelectReturns(s) ==
    LET call == ops[s]
        existing == DbSelect(db, "projectFiles",
                             [projectId |-> call.args.projectId, path |-> call.args.path])
    IN
    /\ call.pc = "selectFile"
    /\ \/ /\ existing = {}
          /\ ops' = [ops EXCEPT ![s] = [call EXCEPT !.pc = "insertFile"]]
       \/ \E id \in existing :
            ops' = [ops EXCEPT ![s] = ("existing" :> id) @@ [call EXCEPT !.pc = "updateFile"]]
    /\ UNCHANGED <<now, db, orchVars, memVars, queueVars>>

\* createOrUpdateFile: its update of the existing row, or its insert, returns
FileWriteReturns(s) ==
    LET call == ops[s] IN
    /\ call.pc \in {"insertFile", "updateFile"}
    /\ db' = IF call.pc = "insertFile"
             THEN DbInsert(db, "projectFiles", ValuesOf(call.op, call.args))
             ELSE DbUpdate(db, "projectFiles", SetOf(call.op, call.args, now),
                           [id |-> call.existing])
    /\ ops' = [ops EXCEPT ![s] = Done(call, TRUE)]
    /\ UNCHANGED <<now, orchVars, memVars, queueVars>>

(***************************************************************************)
(* Initial state and specifications                                        *)
(***************************************************************************)
IdleCall == [pc |-> "idle"]

Init ==
    /\ now = 0
    /\ runs = [r \in Runs |-> IdleRun]
    /\ invoked = [r \in Runs |-> <<>>]
    /\ storage = EmptyStorage
    /\ calls = [s \in Slots |-> IdleCall]
    /\ hits = <<>>
    /\ db = EmptyDb
    /\ ops = [s \in Slots |-> IdleCall]
    /\ taskQueue = <<>>

\* one orchestrate call at a time
SoloRuns == {1}

OrchStep(faults) ==
    \/ \E r \in SoloRuns, prompt \in Prompts, projectId \in ProjectIds, fault \in faults :
            Orchestrate(r, prompt, projectId, fault)
    \/ \E r \in SoloRuns, fault \in faults : AfterPlanner(r, fault)
    \/ \E r \in SoloRuns, fault \in faults : AfterCoder(r, fault)
    \/ \E r \in SoloRuns, fault \in faults : AfterVerifier(r, fault)
    \/ \E r \in SoloRuns : AfterExecutor(r)
    \/ \E r \in SoloRuns : CallerTakesTrace(r)
    \/ Tick

\* the orchestrator with the repository's agents
NextOrch == OrchStep(AgentFaults)

SpecOrch == Init /\ [][NextOrch]_vars

\* the orchestrator with agents whose calls may also reject
NextOrchRaise == OrchStep(Faults)

SpecOrchRaise == Init /\ [][NextOrchRaise]_vars

\* the orchestrator with agents that may never answer; an agent call that
\* settles is resumed (the event loop runs every continuation that is ready)
NextOrchSlow ==
    \/ \E r \in SoloRuns, projectId \in ProjectIds, fault \in SlowFaults :
            Orchestrate(r, "retry", projectId, fault)
    \/ \E r \in SoloRuns, fault \in SlowFaults : AfterPlanner(r, fault)
    \/ \E r \in SoloRuns, fault \in SlowFaults : AfterCoder(r, fault)
    \/ \E r \in SoloRuns, fault \in SlowFaults : AfterVerifier(r, fault)
    \/ \E r \in SoloRuns : AfterExecutor(r)
    \/ \E r \in SoloRuns : CallerTakesTrace(r)
    \/ Tick

SpecOrchSlow ==
    /\ Init /\ [][NextOrchSlow]_vars
    /\ \A r \in SoloRuns :
            /\ WF_vars(\E fault \in SlowFaults : AfterPlanner(r, fault))
            /\ WF_vars(\E fault \in SlowFaults : AfterCoder(r, fault))
            /\ WF_vars(\E fault \in SlowFaults : AfterVerifier(r, fault))
            /\ WF_vars(AfterExecutor(r))

PromptsConc == {"Create a React app", "retry"}

\* orchestrate calls that overlap: they interleave at the agent-call awaits
NextOrchConc ==
    \/ \E r \in Runs, prompt \in PromptsConc, projectId \in ProjectIds, fault \in AgentFaults :
            Orchestrate(r, prompt, projectId, fault)
    \/ \E r \in Runs, fault \in AgentFaults : AfterPlanner(r, fault)
    \/ \E r \in Runs, fault \in AgentFaults : AfterCoder(r, fault)
    \/ \E r \in Runs, fault \in AgentFaults : AfterVerifier(r, fault)
    \/ \E r \in Runs : AfterExecutor(r)
    \/ \E r \in Runs : CallerTakesTrace(r)

SpecOrchConc == Init /\ [][NextOrchConc]_vars

\* inputs of the MemoryStorage calls
Users == {1, 2}

StoreArgs ==
    {[userId |-> u, memoryType |-> "lesson", key |-> "k", value |-> "v"] : u \in Users}
    \cup {[userId |-> u, memoryType |-> "error", key |-> "k", value |-> "w",
           projectId |-> 1] : u \in Users}

Queries ==
    {[userId |-> u] : u \in Users}
    \cup {[userId |-> u, query |-> "v"] : u \in Users}
    \cup {[userId |-> 1, query |-> "v", limit |-> 1], [userId |-> 1, limit |-> 1],
          [userId |-> 1, projectId |-> 1], [userId |-> 1, memoryType |-> "lesson"]}

Ids == {IdOf(n) : n \in 1..(MaxEntries + 1)}

UpdateArgs ==
    {[id |-> i, userId |-> u, updates |-> p] :
        i \in Ids, u \in Users, p \in {[value |-> "w"], [userId |-> 2]}}

DeleteArgs == {[id |-> i, userId |-> u] : i \in Ids, u \in Users}

\* MemoryStorage called by one caller that awaits every call
NextMem ==
    \/ \E args \in StoreArgs : MemStore(1, args, FALSE)
    \/ MemStoreResume(1)
    \/ \E query \in Queries : MemRetrieve(1, query, FALSE)
    \/ MemRetrieveResume(1)
    \/ \E args \in UpdateArgs : MemUpdate(1, args, FALSE)
    \/ MemUpdateResume(1)
    \/ \E args \in DeleteArgs : MemDelete(1, args, FALSE)

SpecMem == Init /\ [][NextMem]_vars

\* inputs of the calls that overlap: one user's entries, retrieved with and
\* without query text, their value or their key updated
StoreArgsConc == {[userId |-> 1, memoryType |-> "lesson", key |-> "k", value |-> "v"]}

QueriesConc == {[userId |-> 1], [userId |-> 1, query |-> "v"]}

UpdateArgsConc ==
    {[id |-> IdOf(1), userId |-> 1, updates |-> p] : p \in {[value |-> "w"], [key |-> "k2"]}}

\* MemoryStorage called by callers that do not wait for each other: the calls
\* interleave at their awaits
NextMemConc ==
    \/ \E s \in Slots, args \in StoreArgsConc : MemStore(s, args, TRUE)
    \/ \E s \in Slots : MemStoreResume(s)
    \/ \E s \in Slots, query \in QueriesConc : MemRetrieve(s, query, TRUE)
    \/ \E s \in Slots : MemRetrieveResume(s)
    \/ \E s \in Slots, args \in UpdateArgsConc : MemUpdate(s, args, TRUE)
    \/ \E s \in Slots : MemUpdateResume(s)

SpecMemConc == Init /\ [][NextMemConc]_vars

DeleteArgsConc == {[id |-> IdOf(1), userId |-> 1]}

\* MemoryStorage called by callers that do not wait for each other, delete
\* among the calls
NextMemDel ==
    \/ \E s \in Slots, args \in StoreArgsConc : MemStore(s, args, TRUE)
    \/ \E s \in Slots : MemStoreResume(s)
    \/ \E s \in Slots, query \in QueriesConc : MemRetrieve(s, query, TRUE)
    \/ \E s \in Slots : MemRetrieveResume(s)
    \/ \E s \in Slots, args \in UpdateArgsConc : MemUpdate(s, args, TRUE)
    \/ \E s \in Slots : MemUpdateResume(s)
    \/ \E s \in Slots, args \in DeleteArgsConc : MemDelete(s, args, TRUE)

SpecMemDel == Init /\ [][NextMemDel]_vars

\* inputs of the calls with partial updates of every kind: update takes a
\* Partial<MemoryEntry>, so any field can be named, undefined included
StoreArgsPartial ==
    {[userId |-> 1, memoryType |-> "lesson", key |-> "k", value |-> v] : v \in {"v", ""}}

QueriesPartial == {[userId |-> 1], [userId |-> 1, query |-> "v"], [userId |-> 1, query |-> ""]}

UpdateArgsPartial ==
    {[id |-> IdOf(1), userId |-> 1, updates |-> p] :
        p \in {[value |-> "w"], [value |-> ""], [accessCount |-> 0],
               [memoryType |-> "error"], [id |-> IdOf(MaxEntries + 1)]}}
    \cup {[id |-> IdOf(1), userId |-> 1, updates |-> <<>>, undefs |-> {"embedding"}]}

\* MemoryStorage called by one caller that awaits every call and passes
\* partial updates of every kind
NextMemPartial ==
    \/ \E args \in StoreArgsPartial : MemStore(1, args, FALSE)
    \/ MemStoreResume(1)
    \/ \E query \in QueriesPartial : MemRetrieve(1, query, FALSE)
    \/ MemRetrieveResume(1)
    \/ \E args \in UpdateArgsPartial : MemUpdate(1, args, FALSE)
    \/ MemUpdateResume(1)
    \/ \E args \in DeleteArgsConc : MemDelete(1, args, FALSE)
    \/ MemStatistics(1, 1, FALSE)

SpecMemPartial == Init /\ [][NextMemPartial]_vars

\* inputs of the AIDE service calls
RowIds == 1..MaxRows

SvcCalls ==
    {<<"createProject", [userId |-> u]>> : u \in Users}
    \cup {<<"createBuildRecord", [projectId |-> p, userId |-> u, buildNumber |-> 1]>> :
            p \in RowIds, u \in Users}
    \cup {<<"updateBuildRecord", [buildId |-> b, projectId |-> p, userId |-> u,
                                  updates |-> [status |-> "success"]]>> :
            b \in RowIds, p \in RowIds, u \in Users}
    \cup {<<"createAgentTask", [projectId |-> p, userId |-> u, agentType |-> "planner",
                                prompt |-> "retry"]>> : p \in RowIds, u \in Users}
    \cup {<<"updateAgentTask", [taskId |-> b, projectId |-> p, userId |-> u,
                                updates |-> [status |-> "completed"]]>> :
            b \in RowIds, p \in RowIds, u \in Users}

\* the AIDE service called by one caller that awaits every call: projects,
\* build records and agent tasks are created and updated
NextSvc ==
    \/ \E c \in SvcCalls : SvcCall(1, c[1], c[2], FALSE)
    \/ GetProjectReturns(1)
    \/ InsertReturns(1)
    \/ UpdateReturns(1)

SpecSvc == Init /\ [][NextSvc]_vars

\* inputs of the service calls that overlap: one project, its files and tasks
SvcCallsConc ==
    {<<"createProject", [userId |-> 1]>>}
    \cup {<<"deleteProject", [projectId |-> 1, userId |-> u]>> : u \in Users}
    \cup {<<"createOrUpdateFile", [projectId |-> 1, userId |-> 1, path |-> "a", content |-> c]>> :
            c \in {"c1"}}
    \cup {<<"createAgentTask", [projectId |-> 1, userId |-> 1, agentType |-> "planner",
                                prompt |-> "retry"]>>}

\* the AIDE service called by callers that do not wait for each other: the
\* calls interleave at their awaits
NextSvcConc ==
    \/ \E s \in Slots, c \in SvcCallsConc : SvcCall(s, c[1], c[2], TRUE)
    \/ \E s \in Slots : GetProjectReturns(s)
    \/ \E s \in Slots : InsertReturns(s)
    \/ \E s \in Slots : DeleteProjectStep(s)
    \/ \E s \in Slots : FileSelectReturns(s)
    \/ \E s \in Slots : FileWriteReturns(s)

SpecSvcConc == Init /\ [][NextSvcConc]_vars

\* inputs of the calls that exercise retrieve's filters, order and limit
StoreArgsQuery ==
    {[userId |-> 1, memoryType |-> "lesson", key |-> "k", value |-> "v"],
     [userId |-> 1, memoryType |-> "error", key |-> "k", value |-> "w", projectId |-> 1]}

QueriesQuery ==
    {[userId |-> 1], [userId |-> 1, query |-> "v"], [userId |-> 1, query |-> "v", limit |-> 1],
     [userId |-> 1, limit |-> 1], [userId |-> 1, limit |-> 0],
     [userId |-> 1, projectId |-> 0], [userId |-> 1, projectId |-> 1],
     [userId |-> 1, memoryType |-> "error"]}

\* MemoryStorage stored to and retrieved from by one caller that awaits every call
NextMemQuery ==
    \/ \E args \in StoreArgsQuery : MemStore(1, args, FALSE)
    \/ MemStoreResume(1)
    \/ \E query \in QueriesQuery : MemRetrieveUpTo(1, query, FALSE, MaxAccessQuery)
    \/ MemRetrieveResume(1)

SpecMemQuery == Init /\ [][NextMemQuery]_vars

\* MemoryStorage with store calls that overlap each other and the retrieve and
\* delete calls of other callers
NextMemStores ==
    \/ \E s \in Slots, args \in StoreArgsQuery : MemStoreUpTo(s, args, TRUE, MaxEntries)
    \/ \E s \in Slots : MemStoreResume(s)
    \/ \E s \in Slots, query \in QueriesConc : MemRetrieve(s, query, TRUE)
    \/ \E s \in Slots : MemRetrieveResume(s)
    \/ \E s \in Slots, args \in DeleteArgsConc : MemDelete(s, args, TRUE)

SpecMemStores == Init /\ [][NextMemStores]_vars

\* inputs of the calls that fill the store for getStatistics: more entries of
\* one user than the statistics list, of two kinds, after a first entry that
\* may be another user's
StoreArgsStats ==
    {[userId |-> 1, memoryType |-> "lesson", key |-> "k", value |-> "v"],
     [userId |-> 1, memoryType |-> "error", key |-> "k", value |-> "v"],
     [userId |-> 2, memoryType |-> "lesson", key |-> "k", value |-> "v"]}

QueriesStats == {[userId |-> 1, memoryType |-> "error", limit |-> 1]}

\* MemoryStorage stored to over time, retrieved from and asked for statistics
\* by one caller that awaits every call
NextMemStats ==
    \/ \E args \in StoreArgsStats :
            /\ args.userId = 2 => storage.nextId = 1
            /\ MemStoreUpTo(1, args, FALSE, MaxEntriesStats)
    \/ MemStoreResume(1)
    \/ \E query \in QueriesStats : MemRetrieve(1, query, FALSE)
    \/ \E userId \in Users : MemStatistics(1, userId, FALSE)
    \/ TickUpTo(MaxClockStats)

SpecMemStats == Init /\ [][NextMemStats]_vars

\* inputs of the MemoryContext calls: one task description learnt from
\* again and again
LearnArgs ==
    {[userId |-> 1, projectId |-> 1, taskDescription |-> "t", result |-> "v", success |-> TRUE],
     [userId |-> 1, projectId |-> 0, taskDescription |-> "t", result |-> "w", success |-> FALSE],
     [userId |-> 2, projectId |-> 1, taskDescription |-> "t", result |-> "v", success |-> FALSE]}

\* MemoryContext called by one caller that awaits every call
NextMemContext ==
    \/ \E a \in LearnArgs : MemLearn(1, a, FALSE)
    \/ MemLearnResume(1)
    \/ \E p \in {0, 1} : MemGetContextForTask(1, 1, p, "v", FALSE)
    \/ MemRetrieveResume(1)
    \/ TickUpTo(MaxClockStats)

SpecMemContext == Init /\ [][NextMemContext]_vars

\* the tasks put into the queue: planner records as orchestrate makes them,
\* two of them with one id
QueueTasks ==
    {[id |-> <<"plan", t>>, projectId |-> p, agentType |-> "planner", status |-> "pending",
      prompt |-> "retry", createdAt |-> t] : t \in {0, 1}, p \in {1, 42}}

QueueIds == {task.id : task \in QueueTasks} \cup {<<"plan", 2>>}

\* the orchestrator's task queue used while orchestrate calls run
NextQueue ==
    \/ \E task \in QueueTasks : AddTask(task)
    \/ \E taskId \in QueueIds : RemoveTask(taskId)
    \/ \E r \in SoloRuns, fault \in AgentFaults : Orchestrate(r, "retry", 1, fault)
    \/ \E r \in SoloRuns, fault \in AgentFaults : AfterPlanner(r, fault)
    \/ \E r \in SoloRuns, fault \in AgentFaults : AfterCoder(r, fault)
    \/ \E r \in SoloRuns, fault \in AgentFaults : AfterVerifier(r, fault)
    \/ \E r \in SoloRuns : AfterExecutor(r)
    \/ \E r \in SoloRuns : CallerTakesTrace(r)

SpecQueue == Init /\ [][NextQueue]_vars

(***************************************************************************)
(* Properties of the pipeline                                              *)
(***************************************************************************)
AgentTypes(tasks) == [i \in 1..Len(tasks) |-> tasks[i].agentType]

IsPrefix(a, b) == Len(a) <= Len(b) /\ \A i \in 1..Len(a) : a[i] = b[i]

CallSucceeded(c) == c.promise.settled = "fulfilled" /\ c.promise.value.success

CallFailed(c) == c.promise.settled = "fulfilled" /\ ~c.promise.value.success

\* the record orchestrate keeps of a call that returned a response
RecordsCall(task, c) ==
    /\ task.agentType = c.agent
    /\ task.status = (IF c.promise.value.success THEN "completed" ELSE "failed")
    /\ Pick(task, {"result", "error"}) = Pick(c.promise.value, {"result", "error"})

\* C1: the trace holds the records of the invoked agents in the order planner,
\* coder, verifier, executor, one per call and none dropped; a returned trace
\* has length 1 when the planner failed, 2 when the coder failed, 3 (and no
\* executor record) when the verifier failed, and 4 ending with the executor
\* record when planner, coder and verifier succeeded.
C1_PipelineOrdering ==
    \A r \in Runs :
        LET t == runs[r].tasks
            h == invoked[r]
        IN
        /\ IsPrefix(AgentTypes(t), AgentOrder)
        /\ Len(t) <= Len(h)
        /\ \A i \in 1..Len(t) : RecordsCall(t[i], h[i])
        /\ runs[r].pc = "done" =>
            /\ Len(t) = Len(h)
            /\ CallFailed(h[1]) => Len(t) = 1
            /\ (Len(h) >= 2 /\ CallFailed(h[2])) => Len(t) = 2
            /\ (Len(h) >= 3 /\ CallFailed(h[3])) =>
                    Len(t) = 3 /\ \A i \in 1..Len(t) : t[i].agentType # "executor"
            /\ (Len(h) >= 3 /\ \A i \in 1..3 : CallSucceeded(h[i])) =>
                    Len(t) = 4 /\ t[4].agentType = "executor"

\* C1 witness: a returned trace of four records, and the executor failed
C1_Witness ==
    \E r \in Runs :
        /\ runs[r].pc = "done"
        /\ Len(runs[r].tasks) = 4
        /\ runs[r].tasks[4].status = "failed"

\* C2: with the repository's agents and no fault in any of them, orchestrate
\* returns exactly 4 records, the last one the executor's with status
\* completed, whatever the prompt.
C2_FourRecordsForEveryPrompt ==
    \A r \in Runs :
        (runs[r].pc = "done" /\ \A i \in 1..Len(invoked[r]) : invoked[r][i].fault = "none")
        => /\ Len(runs[r].tasks) = 4
           /\ runs[r].tasks[4].agentType = "executor"
           /\ runs[r].tasks[4].status = "completed"

\* C3: in one orchestrate call the agents are invoked at most once each, in
\* pipeline order; once the verifier has failed no further agent is invoked
\* (neither the coder again nor the executor), and the returned trace ends
\* with the verifier's record, marked failed.
C3_SingleLinearPass ==
    \A r \in Runs :
        LET h == invoked[r]
            t == runs[r].tasks
        IN
        /\ IsPrefix([i \in 1..Len(h) |-> h[i].agent], AgentOrder)
        /\ (Len(h) >= 3 /\ CallFailed(h[3])) =>
            /\ Len(h) = 3
            /\ runs[r].pc \in {"verifier", "done"}
            /\ runs[r].pc = "done" =>
                /\ Len(t) = 3
                /\ t[3].agentType = "verifier"
                /\ t[3].status = "failed"

\* C3 witness: a run returned after the verifier failed with nextAgent = coder
C3_Witness ==
    \E r \in Runs :
        /\ runs[r].pc = "done"
        /\ Len(invoked[r]) = 3
        /\ CallFailed(invoked[r][3])
        /\ "nextAgent" \in DOMAIN invoked[r][3].promise.value
        /\ invoked[r][3].promise.value.nextAgent = "coder"

C5_CompletedAtIffFinished ==
    \A r \in Runs :
        LET records == {runs[r].tasks[i] : i \in 1..Len(runs[r].tasks)}
                       \cup {runs[r].cur[i] : i \in 1..Len(runs[r].cur)}
        IN \A t \in records :
            ("completedAt" \in DOMAIN t) <=> (t.status \in {"completed", "failed"})

\* C5 witness: a finished record in the trace while the next one is running
C5_Witness ==
    \E r \in Runs :
        /\ Len(runs[r].cur) = 1
        /\ runs[r].cur[1].status = "running"
        /\ Len(runs[r].tasks) >= 1
        /\ "completedAt" \in DOMAIN runs[r].tasks[1]
        /\ runs[r].tasks[1].status = "completed"

(***************************************************************************)
(* Properties of the memory store                                          *)
(***************************************************************************)
HasReturned(call) == call.pc = "done" /\ "ret" \in DOMAIN call

HasThrown(call) == call.pc = "done" /\ "error" \in DOMAIN call

\* update or delete was called for an id that was not stored, or was stored
\* for another user
Foreign(call) ==
    /\ call.pc = "done"
    /\ call.op \in {"update", "delete"}
    /\ \/ call.args.id \notin DOMAIN call.pre
       \/ call.pre[call.args.id].userId # call.args.userId

\* C6: retrieve returns only entries whose userId is the query's userId,
\* whatever the other query fields are and whatever calls ran before.
C6_RetrieveScopedToUser ==
    \A s \in Slots :
        HasReturned(calls[s]) /\ calls[s].op = "retrieve" =>
            \A i \in 1..Len(calls[s].ret.entries) :
                calls[s].ret.entries[i].userId = calls[s].args.userId

\* a retrieve returned entries while another user's entry was stored
C6_Witness ==
    \E s \in Slots :
        /\ HasReturned(calls[s]) /\ calls[s].op = "retrieve"
        /\ Len(calls[s].ret.entries) > 0
        /\ \E id \in DOMAIN calls[s].pre : calls[s].pre[id].userId # calls[s].args.userId

\* C7: when retrieve has returned, each returned entry's stored accessCount is
\* one more than before the call and its lastAccessed is the time of the call,
\* and every stored entry that was not returned has all its fields as before.
C7_AccessBookkeeping ==
    \A s \in Slots :
        HasReturned(calls[s]) /\ calls[s].op = "retrieve" =>
            \A id \in DOMAIN calls[s].pre :
                /\ MapHas(storage, id)
                /\ IF id \in Range(calls[s].ret.keys)
                   THEN /\ MapGet(storage, id).accessCount = calls[s].pre[id].accessCount + 1
                        /\ MapGet(storage, id).lastAccessed = now
                   ELSE MapGet(storage, id) = calls[s].pre[id]

\* C8: update and delete for an id that is not stored, or is stored for
\* another user, fail with 'Memory not found or unauthorized' and leave every
\* stored entry as it was.
C8_ForeignUpdateDeleteRejected ==
    \A s \in Slots :
        Foreign(calls[s]) =>
            /\ HasThrown(calls[s])
            /\ calls[s].error = NotFound
            /\ Snapshot(storage) = calls[s].pre

\* a delete was called for an entry stored for another user
C8_Witness ==
    \E s \in Slots :
        /\ Foreign(calls[s])
        /\ calls[s].op = "delete"
        /\ calls[s].args.id \in DOMAIN calls[s].pre

\* C9: once no call is in flight, every stored entry's accessCount is the
\* number of times a retrieve returned it, however the retrieve and update
\* calls interleaved at their awaits.
C9_NoLostAccessCount ==
    (\A s \in Slots : calls[s].pc \in {"idle", "done"}) =>
        \A id \in DOMAIN storage.memories : MapGet(storage, id).accessCount = HitsOf(id)

\* what an update that runs alone makes of an entry
SerialUpdate(entry, updates) ==
    (IF TruthyStr(updates, "value")
     THEN "embedding" :> generateEmbedding(updates.value)
     ELSE <<>>) @@ updates @@ entry

\* the fields of an entry that update calls set (not the access bookkeeping,
\* which retrieve calls change in between)
Content(entry) ==
    Pick(entry, {"id", "userId", "memoryType", "key", "value", "embedding", "projectId"})

\* C10: when two update calls on one id have both returned, the stored entry
\* is what running the two one after the other, in one of the two orders,
\* makes of the entry the first of them found.
C10_UpdatesSerializable ==
    \A a, b \in Slots :
        /\ a # b
        /\ HasReturned(calls[a]) /\ calls[a].op = "update"
        /\ HasReturned(calls[b]) /\ calls[b].op = "update"
        /\ calls[a].args.id = calls[b].args.id
        /\ MapHas(storage, calls[a].args.id)
        => \E x, y \in {a, b} :
            /\ x # y
            /\ Content(MapGet(storage, calls[a].args.id))
               = Content(SerialUpdate(SerialUpdate(calls[x].pre[calls[x].args.id],
                                                   calls[x].args.updates),
                                      calls[y].args.updates))

\* C11: once delete(id, s) has returned true, no entry is stored under that id
\* (ids are not reused), also when an update of the id that was called before
\* the delete returns after it.
C11_DeletedStaysAbsent ==
    \A s \in Slots :
        HasReturned(calls[s]) /\ calls[s].op = "delete" /\ calls[s].ret = TRUE =>
            ~MapHas(storage, calls[s].args.id)

\* C12: when retrieve is given a query text, every returned entry has a
\* similarity to it, computed from the entry's embedding, that is above 0.3.
C12_RelevanceFloor ==
    \A s \in Slots :
        HasReturned(calls[s]) /\ calls[s].op = "retrieve" /\ TruthyStr(calls[s].args, "query") =>
            \A i \in 1..Len(calls[s].ret.entries) :
                /\ "embedding" \in DOMAIN calls[s].ret.entries[i]
                /\ calculateSimilarity(calls[s].ret.entries[i].embedding,
                                       generateEmbedding(calls[s].args.query)) > RelevanceFloor

\* an entry as store has made it and nothing has changed it since
AsStored(entry) ==
    /\ "embedding" \in DOMAIN entry
    /\ entry.embedding = generateEmbedding(entry.value)
    /\ "relevanceScore" \notin DOMAIN entry
    /\ entry.accessCount = 0
    /\ entry.updatedAt = entry.createdAt

\* the similarity of an entry's embedding with itself (1, in millionths)
SelfSimilarity(entry) == calculateSimilarity(entry.embedding, entry.embedding)

\* C13: retrieve({userId: s, query: v}) called while an entry that
\* store(s, kind, key, v) made is stored returns that entry with relevanceScore
\* 1, no returned entry has a higher one, and when it is the only stored
\* entry it is the whole result.
C13_RoundTrip ==
    \A s \in Slots :
        /\ HasReturned(calls[s]) /\ calls[s].op = "retrieve"
        /\ DOMAIN calls[s].args = {"userId", "query"}
        => \A id \in DOMAIN calls[s].pre :
            /\ AsStored(calls[s].pre[id])
            /\ calls[s].pre[id].userId = calls[s].args.userId
            /\ calls[s].pre[id].value = calls[s].args.query
            => /\ \E i \in 1..Len(calls[s].ret.keys) :
                    /\ calls[s].ret.keys[i] = id
                    /\ "relevanceScore" \in DOMAIN calls[s].ret.entries[i]
                    /\ calls[s].ret.entries[i].relevanceScore = SelfSimilarity(calls[s].pre[id])
               /\ \A i \in 1..Len(calls[s].ret.entries) :
                    ScoreOrZero(calls[s].ret.entries[i]) <= SelfSimilarity(calls[s].pre[id])
               /\ DOMAIN calls[s].pre = {id} => calls[s].ret.keys = <<id>>

\* C14: the accessCount of an entry never decreases while the entry is
\* stored, whatever call is made.
C14_AccessCountNeverDecreases ==
    [][\A id \in DOMAIN storage.memories \cap DOMAIN storage'.memories :
          MapGet(storage', id).accessCount >= MapGet(storage, id).accessCount]_vars

\* C15: every stored entry has an embedding, and it is the embedding of the
\* entry's value (so all stored embeddings have one length).
C15_EmbeddingOfValue ==
    \A id \in DOMAIN storage.memories :
        /\ "embedding" \in DOMAIN MapGet(storage, id)
        /\ MapGet(storage, id).embedding = generateEmbedding(MapGet(storage, id).value)

\* C16: the memoryType of a stored entry never changes, whatever partial
\* update is passed to update.
C16_KindImmutable ==
    [][\A id \in DOMAIN storage.memories \cap DOMAIN storage'.memories :
          MapGet(storage', id).memoryType = MapGet(storage, id).memoryType]_vars

\* C17: every entry is stored under the key that is its own id field, so no
\* two stored entries have one id and no call changes the id of an entry.
C17_IdIsKey ==
    \A id \in DOMAIN storage.memories : MapGet(storage, id).id = id

\* the entries of a user, by key
EntriesOf(st, userId) ==
    [id \in {k \in DOMAIN st.memories : MapGet(st, k).userId = userId} |-> MapGet(st, id)]

\* C18: a step of a call made with user X leaves the entries of every other
\* user Y (which entries, and all their fields) as they were.
C18_UsersDoNotInterfere ==
    [][calls'[1] # calls[1] =>
          \A y \in Users \ {calls'[1].args.userId} :
              EntriesOf(storage', y) = EntriesOf(storage, y)]_vars

(***************************************************************************)
(* Properties of overlapping orchestrate calls and of the agents           *)
(***************************************************************************)
\* the response the i-th agent gives when orchestrate(prompt, projectId) runs
\* alone and the agents behave as given by fs
AloneResponse(prompt, projectId, fs, i) ==
    LET plan == PlannerAnalyze(prompt, fs[1])
        code == CoderGenerate(prompt, plan.result, fs[2])
    IN CASE i = 1 -> plan
         [] i = 2 -> code
         [] i = 3 -> VerifierVerify(ResultOrEmpty(code), fs[3])
         [] i = 4 -> ExecutorExecute(ResultOrEmpty(code), projectId, fs[4])

\* the prompt of the i-th record of that run
AlonePrompt(prompt, projectId, fs, i) ==
    CASE i = 1 -> prompt
      [] i = 2 -> ResultOrEmpty(AloneResponse(prompt, projectId, fs, 1))
      [] i \in {3, 4} -> ResultOrEmpty(AloneResponse(prompt, projectId, fs, 2))

\* what a trace shows of a record: everything but the clock readings
Shown(task) == Pick(task, {"projectId", "agentType", "status", "prompt", "result", "error"})

\* the i-th record of that run
AloneRecord(prompt, projectId, fs, i) ==
    LET response == AloneResponse(prompt, projectId, fs, i) IN
    Pick(response, {"result", "error"})
    @@ [projectId |-> projectId, agentType |-> AgentOrder[i],
        status |-> IF response.success THEN "completed" ELSE "failed",
        prompt |-> AlonePrompt(prompt, projectId, fs, i)]

\* C19: an orchestrate call that overlaps with another one returns the trace
\* it returns when it runs alone with the same agent behaviour: the same
\* number of records, each with the agent type, status, result, error, prompt
\* and projectId of its own run.
C19_RunsShareNoState ==
    \A r \in Runs :
        runs[r].pc = "done" =>
            LET fs == [i \in 1..Len(invoked[r]) |-> invoked[r][i].fault]
                n == Len(fs)
            IN
            /\ \A i \in 1..(n - 1) : AloneResponse(runs[r].prompt, runs[r].projectId, fs, i).success
            /\ n = 4 \/ ~AloneResponse(runs[r].prompt, runs[r].projectId, fs, n).success
            /\ Len(runs[r].tasks) = n
            /\ \A i \in 1..n :
                Shown(runs[r].tasks[i]) = AloneRecord(runs[r].prompt, runs[r].projectId, fs, i)

\* a call has returned its four records while a call for another prompt and
\* another project is at its verifier step
C19_Witness ==
    \E r, o \in Runs :
        /\ runs[r].pc = "done" /\ Len(runs[r].tasks) = 4
        /\ runs[o].pc = "verifier"
        /\ runs[o].prompt # runs[r].prompt
        /\ runs[o].projectId # runs[r].projectId

\* the place of an agent in the pipeline
Stage(agent) == CHOOSE i \in 1..Len(AgentOrder) : AgentOrder[i] = agent

\* the code the verifier of run r was called with
VerifiedCode(r) == ResultOrEmpty(runs[r].codeResult[1])

\* C20: a verify call that ran its checks answers success = true and
\* nextAgent = executor exactly when checkCodeQuality finds no issue, and
\* otherwise success = false, nextAgent = coder and an error text with every
\* issue on a line of its own; no other response of any agent names an
\* earlier stage as nextAgent, and no executor response has a nextAgent.
C20_VerifierVerdict ==
    \A r \in Runs :
        \A i \in 1..Len(invoked[r]) :
            LET c == invoked[r][i]
                v == c.promise.value
                issues == checkCodeQuality(VerifiedCode(r))
            IN
            /\ c.agent = "verifier" /\ c.fault = "none" =>
                /\ v.success <=> Len(issues) = 0
                /\ v.success => v.nextAgent = "executor"
                /\ ~v.success =>
                    /\ v.nextAgent = "coder"
                    /\ splitLength(v.error, "\n") = Len(issues) + 1
                    /\ \A k \in 1..Len(issues) : includes(v.error, "\n" \o issues[k])
            /\ c.agent = "executor" => "nextAgent" \notin DOMAIN v
            /\ "nextAgent" \in DOMAIN v /\ Stage(v.nextAgent) < Stage(c.agent) =>
                c.agent = "verifier" /\ v.nextAgent = "coder"

\* a verify call that found more than one issue
C20_Witness ==
    \E r \in Runs :
        \E i \in 1..Len(invoked[r]) :
            /\ invoked[r][i].agent = "verifier"
            /\ invoked[r][i].fault = "none"
            /\ Len(checkCodeQuality(VerifiedCode(r))) > 1
            /\ ~invoked[r][i].promise.value.success

\* the code has neither of the error-handling markers
LacksErrorHandling(code) == ~includes(code, "error") /\ ~includes(code, "try")

\* C21: when the coder's result has neither 'error' nor 'try' and the verifier
\* has run its checks on it, the returned trace has 3 records, none of the
\* executor, and the verifier's record is failed with an error text that
\* contains "error handling".
C21_NoErrorHandlingStopsAtVerifier ==
    \A r \in Runs :
        /\ runs[r].pc = "done"
        /\ Len(invoked[r]) >= 3
        /\ invoked[r][3].fault = "none"
        /\ LacksErrorHandling(VerifiedCode(r))
        => /\ Len(runs[r].tasks) = 3
           /\ \A i \in 1..3 : runs[r].tasks[i].agentType # "executor"
           /\ runs[r].tasks[3].agentType = "verifier"
           /\ runs[r].tasks[3].status = "failed"
           /\ includes(runs[r].tasks[3].error, "error handling")

\* a run whose coder result had no error-handling marker has returned
C21_Witness ==
    \E r \in Runs :
        /\ runs[r].pc = "done"
        /\ Len(invoked[r]) >= 3
        /\ invoked[r][3].fault = "none"
        /\ LacksErrorHandling(VerifiedCode(r))

(***************************************************************************)
(* Properties of the AIDE service                                          *)
(***************************************************************************)
\* the project with this id is a row owned by userId
Owns(d, userId, projectId) ==
    projectId \in DOMAIN d.projects /\ d.projects[projectId].userId = userId

\* C22: updateBuildRecord and updateAgentTask change a build or task row only
\* if the row belongs to a project owned by the calling userId.
C22_UpdatesAuthorizedByOwnership ==
    [][\A s \in Slots :
          ops[s].pc = "update" /\ ops'[s].pc = "done" =>
              \A id \in DOMAIN db[TableOf(ops[s].op)] :
                  db'[TableOf(ops[s].op)][id] # db[TableOf(ops[s].op)][id] =>
                      Owns(db, ops[s].args.userId, db[TableOf(ops[s].op)][id].projectId)]_vars

\* no project row with this id and no file, build, memory or task row of it
NothingLeftOf(d, projectId) ==
    /\ projectId \notin DOMAIN d.projects
    /\ \A t \in Tables \ {"projects"} : DbSelect(d, t, [projectId |-> projectId]) = {}

\* C23: once deleteProject(projectId, userId) has returned, no project row and
\* no file, build record, agent memory or agent task of that projectId is in
\* the database, also when file or task creation for the project overlaps
\* with the delete; a deleteProject that throws has deleted nothing.
C23_DeleteProjectLeavesNothing ==
    /\ [](\A s \in Slots :
            HasReturned(ops[s]) /\ ops[s].op = "deleteProject" =>
                NothingLeftOf(db, ops[s].args.projectId))
    /\ [][\A s \in Slots :
            ops[s].pc = "getProject" /\ ops[s].op = "deleteProject" /\ HasThrown(ops'[s]) =>
                db' = db]_vars

Occurrences(code, marker) == Cardinality(matchesOf(code, marker))

AnyIssue == "Excessive use of 'any' type - consider proper typing"

\* C25: a verify call that ran its checks reports the type-looseness issue
\* exactly when 'any' occurs more than 3 times in the code it was given.
C25_AnyFlaggedAboveThree ==
    \A r \in Runs :
        \A i \in 1..Len(invoked[r]) :
            LET c == invoked[r][i] IN
            c.agent = "verifier" /\ c.fault = "none" =>
                ((~c.promise.value.success /\ includes(c.promise.value.error, AnyIssue))
                    <=> Occurrences(VerifiedCode(r), "any") > 3)

(***************************************************************************)
(* Properties of retrieve's filters, order and limit                       *)
(***************************************************************************)
\* a retrieve call that has returned
Retrieved(call) == HasReturned(call) /\ call.op = "retrieve"

\* C26: when the query gives a projectId (0 included), every returned entry
\* has exactly that projectId; when it gives a memoryType, every returned
\* entry has exactly that memoryType.
C26_RetrieveScopedToProjectAndKind ==
    \A s \in Slots :
        Retrieved(calls[s]) =>
            \A i \in 1..Len(calls[s].ret.entries) :
                LET entry == calls[s].ret.entries[i] IN
                /\ "projectId" \in DOMAIN calls[s].args =>
                      "projectId" \in DOMAIN entry /\ entry.projectId = calls[s].args.projectId
                /\ "memoryType" \in DOMAIN calls[s].args =>
                      entry.memoryType = calls[s].args.memoryType

\* C27: a retrieve call without query text returns entries whose
\* relevanceScore is 0 (or not set), in the order of their accessCount,
\* highest first, whatever calls ran before.
C27_NoQueryTextScoresZero ==
    \A s \in Slots :
        Retrieved(calls[s]) /\ "query" \notin DOMAIN calls[s].args =>
            LET entries == calls[s].ret.entries IN
            /\ \A i \in 1..Len(entries) : ScoreOrZero(entries[i]) = 0
            /\ \A i, j \in 1..Len(entries) :
                  i < j => entries[i].accessCount >= entries[j].accessCount

\* the relevanceScore of an entry for a query: its similarity with the query
\* text, 0 when the query has no text
ScoreFor(entry, query) ==
    IF "query" \in DOMAIN query
    THEN calculateSimilarity(entry.embedding, generateEmbedding(query.query))
    ELSE 0

\* a goes before b, or with it, in the order of the results of the query
GoesBefore(a, b, query) ==
    \/ ScoreFor(a, query) > ScoreFor(b, query)
    \/ ScoreFor(a, query) = ScoreFor(b, query) /\ a.accessCount >= b.accessCount

\* C28: the returned entries are in the order of their relevanceScore for
\* this query, highest first, and of their accessCount before the call among
\* entries of equal score; no candidate left out by the limit goes strictly
\* before a returned one.
C28_ResultsOrdered ==
    \A s \in Slots :
        Retrieved(calls[s]) =>
            LET pre == calls[s].pre
                keys == calls[s].ret.keys
                query == calls[s].args
                cut == {id \in DOMAIN pre : PassesFilters(pre[id], query)} \ Range(keys)
            IN
            /\ \A i, j \in 1..Len(keys) :
                  i < j => GoesBefore(pre[keys[i]], pre[keys[j]], query)
            /\ \A i \in 1..Len(keys) : \A id \in cut :
                  GoesBefore(pre[keys[i]], pre[id], query)

\* the smaller of two numbers
Min(a, b) == IF a < b THEN a ELSE b

\* C29: retrieve returns min(limit, totalResults) entries, with limit 10 when
\* the query gives none, and totalResults is the number of stored entries
\* that pass the filters and the relevance floor.
C29_LimitAndTotal ==
    \A s \in Slots :
        Retrieved(calls[s]) =>
            LET pre == calls[s].pre
                query == calls[s].args
                limit == IF "limit" \in DOMAIN query THEN query.limit ELSE DefaultLimit
                passed == {id \in DOMAIN pre :
                              /\ PassesFilters(pre[id], query)
                              /\ ScoreFor(pre[id], query) > RelevanceFloor \/ "query" \notin DOMAIN query}
            IN
            /\ calls[s].ret.totalResults = Cardinality(passed)
            /\ Len(calls[s].ret.entries) = Min(limit, calls[s].ret.totalResults)

(***************************************************************************)
(* Properties of store                                                     *)
(***************************************************************************)
\* the store call of slot s is between its call and its return
Storing(s) == calls[s].pc = "await" /\ calls[s].op = "store"

\* the id is one that store has given out
GivenOut(id) == \E n \in 1..(storage.nextId - 1) : id = IdOf(n)

\* C30: store takes an id that no stored entry and no other store call has or
\* had (the next of a counter that only grows), and on its return has added
\* exactly one entry under that id, with accessCount 0 and the given userId,
\* memoryType, key, value and projectId, every other entry left as it was;
\* store calls that overlap hold distinct ids.
C30_StoreAddsOneFreshEntry ==
    /\ [](/\ \A id \in DOMAIN storage.memories : GivenOut(id)
          /\ \A s \in Slots :
                Storing(s) =>
                    /\ GivenOut(calls[s].id)
                    /\ ~MapHas(storage, calls[s].id)
                    /\ \A o \in Slots \ {s} : Storing(o) => calls[o].id # calls[s].id)
    /\ [][/\ storage'.nextId >= storage.nextId
          /\ \A s \in Slots :
                ~Storing(s) /\ Storing(s)' =>
                    /\ calls'[s].id = IdOf(storage.nextId)
                    /\ storage'.nextId = storage.nextId + 1
                    /\ Snapshot(storage') = Snapshot(storage)
          /\ \A s \in Slots :
                Storing(s) /\ ~Storing(s)' =>
                    LET id == calls[s].id
                        args == calls[s].args
                        entry == MapGet(storage', id)
                    IN
                    /\ HasReturned(calls'[s])
                    /\ calls'[s].ret = entry
                    /\ DOMAIN storage'.memories = DOMAIN storage.memories \cup {id}
                    /\ \A k \in DOMAIN storage.memories : MapGet(storage', k) = MapGet(storage, k)
                    /\ entry.id = id
                    /\ entry.accessCount = 0
                    /\ Pick(entry, {"userId", "memoryType", "key", "value", "projectId"}) = args]_vars

\* two store calls that overlapped have returned entries with distinct ids,
\* both stored
C30_Witness ==
    \E a, b \in Slots :
        /\ a # b
        /\ HasReturned(calls[a]) /\ calls[a].op = "store"
        /\ HasReturned(calls[b]) /\ calls[b].op = "store"
        /\ calls[a].ret.id \notin DOMAIN calls[b].pre
        /\ calls[b].ret.id \notin DOMAIN calls[a].pre
        /\ calls[a].ret.id # calls[b].ret.id
        /\ MapHas(storage, calls[a].ret.id) /\ MapHas(storage, calls[b].ret.id)

(***************************************************************************)
(* Properties of getStatistics                                             *)
(***************************************************************************)
\* a getStatistics call that has returned
Counted31(call) == HasReturned(call) /\ call.op = "getStatistics"

\* the list is in non-increasing order of the field, holds min(5, n) distinct
\* entries of the set, and no entry of the set left out has more of the field
\* than one in the list
TopOf(list, field, entries) ==
    /\ Len(list) = Min(StatisticsLimit, Cardinality(entries))
    /\ \A i \in 1..Len(list) : list[i] \in entries
    /\ \A i, j \in 1..Len(list) : i < j => list[i].id # list[j].id
    /\ \A i, j \in 1..Len(list) : i < j => list[i][field] >= list[j][field]
    /\ \A e \in entries \ Range(list) : \A i \in 1..Len(list) : list[i][field] >= e[field]

\* C31: getStatistics(userId) leaves the store as it is; its totalMemories is
\* the number of that user's entries and the sum of byType over the four
\* kinds, byType counts the user's entries of each kind, mostAccessed is the
\* (at most 5) entries of the user with the highest accessCount, highest
\* first, and recentlyAdded the (at most 5) latest created, latest first.
C31_StatisticsPureAggregation ==
    /\ [](\A s \in Slots :
            Counted31(calls[s]) =>
                LET pre == calls[s].pre
                    ret == calls[s].ret
                    mine == {pre[id] : id \in {k \in DOMAIN pre :
                                                 pre[k].userId = calls[s].args.userId}}
                IN
                /\ ret.totalMemories = Cardinality(mine)
                /\ ret.totalMemories = ret.byType["lesson"] + ret.byType["preference"]
                                       + ret.byType["solution"] + ret.byType["error"]
                /\ \A k \in Kinds :
                      ret.byType[k] = Cardinality({e \in mine : e.memoryType = k})
                /\ TopOf(ret.mostAccessed, "accessCount", mine)
                /\ TopOf(ret.recentlyAdded, "createdAt", mine))
    /\ [][\A s \in Slots :
            Counted31(calls'[s]) /\ calls'[s] # calls[s] => storage' = storage]_vars

\* getStatistics has returned for a user with more than 5 entries of two
\* kinds, created at different times and retrieved differently often, in a
\* store that also holds another user's entry
C31_Witness ==
    \E s \in Slots :
        /\ Counted31(calls[s])
        /\ calls[s].ret.totalMemories > StatisticsLimit
        /\ calls[s].ret.totalMemories < Cardinality(DOMAIN calls[s].pre)
        /\ calls[s].ret.byType["lesson"] > 0 /\ calls[s].ret.byType["error"] > 0
        /\ calls[s].ret.mostAccessed[1].accessCount > calls[s].ret.mostAccessed[2].accessCount
        /\ calls[s].ret.recentlyAdded[1].createdAt
              > calls[s].ret.recentlyAdded[StatisticsLimit].createdAt
        /\ calls[s].ret.mostAccessed # calls[s].ret.recentlyAdded

(***************************************************************************)
(* Properties of MemoryContext                                             *)
(***************************************************************************)
\* C32: getContextForTask(userId, projectId, taskDescription) returns at most
\* 5 entries, all of the given user and project and above the relevance
\* floor for the task description, and exactly the returned entries have
\* their accessCount incremented.
C32_ContextIsScopedRetrieve ==
    \A s \in Slots :
        Retrieved(calls[s]) /\ calls[s].args.limit = ContextLimit =>
            LET pre == calls[s].pre
                query == calls[s].args
                entries == ContextEntries(calls[s])
            IN
            /\ Len(entries) <= ContextLimit
            /\ \A i \in 1..Len(entries) :
                  /\ entries[i].userId = query.userId
                  /\ "projectId" \in DOMAIN entries[i]
                  /\ entries[i].projectId = query.projectId
                  /\ ScoreFor(entries[i], query) > RelevanceFloor
            /\ \A id \in DOMAIN pre :
                  /\ MapHas(storage, id)
                  /\ MapGet(storage, id).accessCount
                        = pre[id].accessCount + (IF id \in Range(calls[s].ret.keys) THEN 1 ELSE 0)

\* a learnFromExecution call is between its call and its return
Learning(s) == calls[s].pc = "await" /\ calls[s].op = "learnFromExecution"

\* C33: when learnFromExecution returns, exactly one entry has been added, of
\* kind solution when success is true and error otherwise, with the result
\* text as value and the given user and project; every other entry is as it
\* was.
C33_LearnAddsOneEntry ==
    [][\A s \in Slots :
          Learning(s) /\ ~Learning(s)' =>
              LET a == calls[s].args
                  added == DOMAIN storage'.memories \ DOMAIN storage.memories
              IN
              /\ HasReturned(calls'[s])
              /\ Cardinality(added) = 1
              /\ DOMAIN storage.memories \subseteq DOMAIN storage'.memories
              /\ \A k \in DOMAIN storage.memories : MapGet(storage', k) = MapGet(storage, k)
              /\ \A k \in added :
                    /\ k \notin DOMAIN calls[s].pre
                    /\ MapGet(storage', k).memoryType = (IF a.success THEN "solution" ELSE "error")
                    /\ MapGet(storage', k).value = a.result
                    /\ MapGet(storage', k).userId = a.userId
                    /\ MapGet(storage', k).projectId = a.projectId]_vars

\* learnFromExecution has returned for a failed execution, with an entry of
\* an earlier call in the store
C33_Witness ==
    \E s \in Slots :
        /\ HasReturned(calls[s]) /\ calls[s].op = "learnFromExecution"
        /\ ~calls[s].args.success
        /\ DOMAIN calls[s].pre # {}
        /\ \E k \in DOMAIN storage.memories \ DOMAIN calls[s].pre :
              MapGet(storage, k).memoryType = "error"

\* C34: the entries that learnFromExecution calls with one task description
\* have stored have pairwise different keys.
C34_LearnedKeysDistinct ==
    \A a, b \in DOMAIN storage.memories :
        a # b => MapGet(storage, a).key # MapGet(storage, b).key

(***************************************************************************)
(* Properties of the task records and the stages' inputs                   *)
(***************************************************************************)
StagePcs == {"planner", "coder", "verifier", "executor"}

\* C35: the record of the agent call in flight has status running; when the
\* call returns its response the record, with status completed or failed, is
\* appended to the trace in that same step; the records already in the trace
\* stay as they are and the trace changes by that append only; no record of
\* a trace is pending or running.
C35_RecordLifecycle ==
    /\ [](\A r \in Runs :
            /\ runs[r].pc \in StagePcs =>
                  /\ Len(runs[r].cur) = 1
                  /\ runs[r].cur[1].status = "running"
                  /\ runs[r].cur[1].agentType = runs[r].pc
                  /\ \A i \in 1..Len(runs[r].tasks) :
                        runs[r].tasks[i].agentType # runs[r].pc
            /\ \A i \in 1..Len(runs[r].tasks) :
                  runs[r].tasks[i].status \in {"completed", "failed"})
    /\ [][\A r \in Runs :
            runs[r].pc \in StagePcs =>
                LET old == runs[r].tasks
                    new == runs'[r].tasks
                IN
                /\ IsPrefix(old, new)
                /\ Len(new) <= Len(old) + 1
                /\ Len(new) = Len(old) + 1 =>
                      /\ runs[r].awaiting[1].settled = "fulfilled"
                      /\ new[Len(new)].id = runs[r].cur[1].id
                      /\ new[Len(new)].agentType = runs[r].pc
                      /\ new[Len(new)].createdAt = runs[r].cur[1].createdAt
                      /\ new[Len(new)].status =
                            (IF runs[r].awaiting[1].value.success THEN "completed" ELSE "failed")
                /\ (runs'[r] # runs[r] /\ runs[r].awaiting[1].settled = "fulfilled") =>
                      Len(new) = Len(old) + 1]_vars

\* a trace of a failed verifier record after two completed ones has been
\* returned
C35_Witness ==
    \E r \in Runs :
        /\ runs[r].pc = "done"
        /\ Len(runs[r].tasks) = 3
        /\ runs[r].tasks[1].status = "completed"
        /\ runs[r].tasks[3].status = "failed"

\* C36: the coder is called with the caller's prompt and the planner's
\* result, the verifier with the coder's result, the executor with the
\* coder's result and the projectId; an agent is called only after the one
\* before it answered success; a returned trace whose executor answered ends
\* with the executor's record, completed or failed.
C36_StageInputs ==
    \A r \in Runs :
        LET h == invoked[r]
            t == runs[r].tasks
        IN
        /\ Len(h) >= 1 => h[1].input = <<runs[r].prompt>>
        /\ \A i \in 2..Len(h) : CallSucceeded(h[i - 1])
        /\ Len(h) >= 2 => h[2].input = <<runs[r].prompt, h[1].promise.value.result>>
        /\ Len(h) >= 3 => h[3].input = <<h[2].promise.value.result>>
        /\ Len(h) >= 4 => h[4].input = <<h[2].promise.value.result, runs[r].projectId>>
        /\ (runs[r].pc = "done" /\ Len(h) = 4 /\ h[4].promise.settled = "fulfilled") =>
              /\ Len(t) = 4
              /\ t[4].agentType = "executor"
              /\ t[4].status = (IF h[4].promise.value.success THEN "completed" ELSE "failed")

\* the executor was called with the coder's result, which is neither the
\* plan nor what the verifier answered, and its failed record ends the trace
C36_Witness ==
    \E r \in Runs :
        /\ runs[r].pc = "done"
        /\ Len(invoked[r]) = 4
        /\ invoked[r][4].input[1] = invoked[r][2].promise.value.result
        /\ invoked[r][4].input[1] # invoked[r][1].promise.value.result
        /\ invoked[r][4].input[1] # ResultOrEmpty(invoked[r][3].promise.value)
        /\ Len(runs[r].tasks) = 4
        /\ runs[r].tasks[4].status = "failed"

\* the task records of a run: those in its trace, then the one in flight
RecordsOf(r) == runs[r].tasks \o runs[r].cur

\* C37: the ids of all task records, of one run and of different runs, are
\* pairwise distinct.
C37_TaskIdsDistinct ==
    \A r, o \in Runs :
        \A i \in 1..Len(RecordsOf(r)) : \A j \in 1..Len(RecordsOf(o)) :
            <<r, i>> # <<o, j>> => RecordsOf(r)[i].id # RecordsOf(o)[j].id

(***************************************************************************)
(* Properties of createOrUpdateFile                                        *)
(***************************************************************************)
\* C38: no two rows of projectFiles have the same projectId and path, also
\* when createOrUpdateFile calls overlap; a createOrUpdateFile call that
\* throws at its ownership check has changed nothing.
C38_OneFileRowPerPath ==
    /\ [](\A a, b \in DOMAIN db.projectFiles :
            a # b => \/ db.projectFiles[a].projectId # db.projectFiles[b].projectId
                     \/ db.projectFiles[a].path # db.projectFiles[b].path)
    /\ [][\A s \in Slots :
            (ops[s].pc = "getProject" /\ ops[s].op = "createOrUpdateFile" /\ HasThrown(ops'[s]))
                => db' = db]_vars

(***************************************************************************)
(* Properties of the task queue                                            *)
(***************************************************************************)
\* the places of the queue whose task has another id, in order
KeptPlaces(queue, taskId) ==
    LET keep == {i \in 1..Len(queue) : queue[i].id # taskId} IN
    [k \in 1..Cardinality(keep) |->
        CHOOSE i \in keep : Cardinality({j \in keep : j <= i}) = k]

\* C39: addTask puts the task at the end of the queue and leaves the tasks
\* before it; removeTask(id) leaves no task with that id and the other tasks
\* in their order, and leaves the queue as it is for an id not in it; the
\* queue changes by addTask and removeTask only, never in a step of
\* orchestrate.
C39_TaskQueue ==
    /\ [](/\ \A task \in QueueTasks :
                /\ Len(addTask(taskQueue, task)) = Len(taskQueue) + 1
                /\ addTask(taskQueue, task)[Len(taskQueue) + 1] = task
                /\ IsPrefix(taskQueue, addTask(taskQueue, task))
          /\ \A taskId \in QueueIds :
                LET left == removeTask(taskQueue, taskId)
                    kept == KeptPlaces(taskQueue, taskId)
                IN
                /\ Len(left) = Len(kept)
                /\ \A k \in 1..Len(left) : left[k] = taskQueue[kept[k]]
                /\ (\A i \in 1..Len(taskQueue) : taskQueue[i].id # taskId) => left = taskQueue)
    /\ [][/\ taskQueue' # taskQueue =>
                \/ \E task \in QueueTasks : taskQueue' = addTask(taskQueue, task)
                \/ \E taskId \in QueueIds : taskQueue' = removeTask(taskQueue, taskId)
          /\ runs' # runs => taskQueue' = taskQueue]_vars

\* two tasks with one id are queued around a task with another id while an
\* orchestrate call is at its coder step
C39_Witness ==
    /\ Len(taskQueue) = 3
    /\ taskQueue[1].id = taskQueue[3].id
    /\ taskQueue[1] # taskQueue[3]
    /\ taskQueue[2].id # taskQueue[1].id
    /\ \E r \in Runs : runs[r].pc = "coder"

==============================================================================
